---------------------------- MODULE Spec2Model ----------------------------
(***************************************************************************)
(* A model of citar, a trigram HMM part-of-speech tagger.                  *)
(*                                                                         *)
(*   Spec         the decoder: NewHMMTagger, Tag (viterbi, one loop        *)
(*                iteration per step) and Trellis.Tags, over a Lexicon     *)
(*                word handler and a LinearInterpolationModel whose        *)
(*                tables hold integer log-scores.                          *)
(*   SpecTrigram  training and the transition model: FrequencyCollector.   *)
(*                Process, NewLinearInterpolationModel and TrigramProb,    *)
(*                with probabilities kept as exact fractions.              *)
(*   SpecWords    the word handlers: Lexicon, SubstLexicon, SuffixHandler  *)
(*                and LookupSuffixHandler built from a collector, and one  *)
(*                TagProbs call; a range over a Go map is a choice of the  *)
(*                order of its keys.                                       *)
(*   SpecConcurrent  two decoding sessions on one HMMTagger that share the *)
(*                tag numberer, the word handler and the trigram model.    *)
(*   SpecBelowOne the decoder of Spec, with a beam factor of 1/2 as well.  *)
(*   SpecMarked   SpecWords over a corpus whose sentences carry the start  *)
(*                and end marker tags on ordinary words.                   *)
(*   SpecNumberer a StringNumberer: Number and Read.                       *)
(*                                                                         *)
(* Strings are sequences of one-character strings, so that the first rune  *)
(* of a word and its lower-cased form can be computed.  A float64 score of *)
(* the decoder is an integer (a log-probability in whole units) or NegInf. *)
(***************************************************************************)
EXTENDS Integers, Sequences, FiniteSets, TLC

(***************************************************************************)
(* Bounds of the model.                                                    *)
(***************************************************************************)
\* longest sentence handed to Tag
MaxLen == 2
\* beam factors are 2^0 .. 2^MaxBeamExp
MaxBeamExp == 1
\* sentences FrequencyCollector.Process is called on
MaxSentences == 2
\* square roots are rounded down to a multiple of 1 / SqrtGrid
SqrtGrid == 4

VARIABLES
    \* ---- decoder (tagger/hmm.go) ----
    numberer,      \* model.tagNumberer: [labelNumbers, labels]
    lexicon,       \* the word handler: Lexicon [wordTagProbs, fallback]
    lim,           \* the trigram model: [unigramProbs, bigramProbs, trigramProbs]
    beamFactor,    \* HMMTagger.beamFactor, the logarithm NewHMMTagger stores
    factor,        \* the beamFactor argument NewHMMTagger was called with
    sentence,      \* the argument of Tag
    tokens,        \* the marker-padded sentence viterbi works on
    i,             \* viterbi's loop index (0-based, as in the code)
    heap,          \* every trellisState allocated, by position: heap[p+1][tag] = backpointers
    beam,          \* viterbi's pruning threshold
    pruned,        \* whether viterbi took its "continue" in this run
    lastColumn,    \* Trellis.lastColumn once Tag has returned
    result,        \* what Tags() returned: [tagNumbers, tags, prob]
    pc,            \* "new", "idle", "viterbi", "tagged", "done", "panic"
    panicMsg,      \* the message of the panic, if any
    prevRun,       \* the previous completed run, for comparing two runs
    \* ---- training and transition model (model/, trigrams/) ----
    fc,            \* the FrequencyCollector: [numberer, lexicon, unigrams, bigrams, trigrams]
    nProcessed,    \* sentences processed so far
    nTokens,       \* tokens of the sentences processed so far
    tm,            \* the LinearInterpolationModel built from fc, or NoModel
    query,         \* the last TrigramProb call: [asked, trigram, result]
    \* ---- word handlers (words/) ----
    wh,            \* the handlers built from fc: [built, config, lexicon, sh, lookup]
    call,          \* the last TagProbs call: [asked, handler, word, outcome]
    \* ---- concurrent decoding sessions on one tagger ----
    sess           \* session |-> [pc, sentence, start, tokens, i, heap, beam, result]

decoderVars == <<numberer, lexicon, lim, beamFactor, factor, sentence, tokens, i,
                 heap, beam, pruned, lastColumn, result, pc, panicMsg, prevRun>>
trainVars == <<fc, nProcessed, nTokens, tm, query, wh, call, sess>>
vars == <<decoderVars, trainVars>>

(***************************************************************************)
(* Strings and runes.                                                      *)
(***************************************************************************)
UpperRunes == <<"A","B","C","D","E","F","G","H","I","J","K","L","M",
                "N","O","P","Q","R","S","T","U","V","W","X","Y","Z">>
LowerRunes == <<"a","b","c","d","e","f","g","h","i","j","k","l","m",
                "n","o","p","q","r","s","t","u","v","w","x","y","z">>

IsUpper(r) == \E k \in DOMAIN UpperRunes : UpperRunes[k] = r

ToLowerRune(r) ==
    IF IsUpper(r)
    THEN LowerRunes[CHOOSE k \in DOMAIN UpperRunes : UpperRunes[k] = r]
    ELSE r

ToLower(word) == [k \in DOMAIN word |-> ToLowerRune(word[k])]

StartToken == <<"<","S","T","A","R","T",">">>
EndToken == <<"<","E","N","D",">">>

(***************************************************************************)
(* Tags and scores.                                                        *)
(***************************************************************************)
MkTag(n, c) == [Tag |-> n, Capital |-> c]

\* a nil *trellisState
NilState == [Tag |-> 0 - 1, Capital |-> FALSE]

NegInf == 0 - 1000

IsFinite(x) == x > NegInf

\* float64 addition on finite values and -Inf
Add(a, b) == IF a = NegInf \/ b = NegInf THEN NegInf ELSE a + b

SetMax(S) == CHOOSE x \in S : \A y \in S : y <= x

RECURSIVE Log2(_)
\* math.Log, in the unit of the scores, on the powers of two
Log2(n) == IF n <= 1 THEN 0 ELSE 1 + Log2(n \div 2)

Pow2(k) == 2 ^ k

EmptyMap == << >>

(***************************************************************************)
(* StringNumberer (model).                                                 *)
(***************************************************************************)
NumberOf(nb, label) ==
    IF label \in DOMAIN nb.labelNumbers
    THEN nb.labelNumbers[label]
    ELSE Cardinality(DOMAIN nb.labelNumbers)

AfterNumber(nb, label) ==
    IF label \in DOMAIN nb.labelNumbers
    THEN nb
    ELSE [labelNumbers |-> nb.labelNumbers @@ (label :> Cardinality(DOMAIN nb.labelNumbers)),
          labels |-> Append(nb.labels, label)]

LabelInRange(nb, n) == n >= 0 /\ n < Len(nb.labels)

Label(nb, n) == nb.labels[n + 1]

(***************************************************************************)
(* Lexicon (words/lexicon.go).  A WordHandler value is NoHandler (nil) or  *)
(* a handler [kind, probs]; the fallback of the decoder's lexicon answers  *)
(* every word with the same candidates.                                    *)
(***************************************************************************)
NoHandler == [kind |-> "nil"]

\* WordHandler.TagProbs of a fallback
HandlerTagProbs(h, word) == h.probs

\* runes[0] of an empty word that is no key of the table is out of range
LexiconPanics(l, word) == word \notin DOMAIN l.wordTagProbs /\ Len(word) = 0

LexiconTagProbs(l, word) ==
    IF word \in DOMAIN l.wordTagProbs
    THEN l.wordTagProbs[word]
    ELSE IF IsUpper(word[1]) /\ ToLower(word) \in DOMAIN l.wordTagProbs
         THEN l.wordTagProbs[ToLower(word)]
         ELSE IF l.fallback # NoHandler
              THEN HandlerTagProbs(l.fallback, word)
              ELSE EmptyMap

(***************************************************************************)
(* LinearInterpolationModel.TrigramProb (trigrams/linear_interpolation.go).*)
(* A trigram is <<t1, t2, t3>>, a bigram <<t1, t2>>, a unigram its tag.    *)
(* The result is [panic |-> TRUE] or [panic |-> FALSE, p |-> value].       *)
(***************************************************************************)
Returned(v) == [panic |-> FALSE, p |-> v]
Panicked == [panic |-> TRUE]

\* backs off to the bigram (t1, t2) instead of (t2, t3)
TrigramProbWrongBigram(m, trigram) ==
    IF trigram \in DOMAIN m.trigramProbs
    THEN Returned(m.trigramProbs[trigram])
    ELSE IF <<trigram[1], trigram[2]>> \in DOMAIN m.bigramProbs
         THEN Returned(m.bigramProbs[<<trigram[1], trigram[2]>>])
         ELSE IF trigram[3] \in DOMAIN m.unigramProbs
              THEN Returned(m.unigramProbs[trigram[3]])
              ELSE Panicked

\* substitutes a value of the table for an unknown tag instead of panicking
TrigramProbDefault(m, trigram) ==
    IF trigram \in DOMAIN m.trigramProbs
    THEN Returned(m.trigramProbs[trigram])
    ELSE IF <<trigram[2], trigram[3]>> \in DOMAIN m.bigramProbs
         THEN Returned(m.bigramProbs[<<trigram[2], trigram[3]>>])
         ELSE IF trigram[3] \in DOMAIN m.unigramProbs
              THEN Returned(m.unigramProbs[trigram[3]])
              ELSE IF DOMAIN m.unigramProbs = {}
                   THEN Panicked
                   ELSE Returned(m.unigramProbs[CHOOSE u \in DOMAIN m.unigramProbs : TRUE])

TrigramProb(m, trigram) ==
    IF trigram \in DOMAIN m.trigramProbs
    THEN Returned(m.trigramProbs[trigram])
    ELSE IF <<trigram[2], trigram[3]>> \in DOMAIN m.bigramProbs
         THEN Returned(m.bigramProbs[<<trigram[2], trigram[3]>>])
         ELSE IF trigram[3] \in DOMAIN m.unigramProbs
              THEN Returned(m.unigramProbs[trigram[3]])
              ELSE Panicked

(***************************************************************************)
(* The trellis (tagger/hmm.go).  A trellisState is identified by its       *)
(* position and tag; heap[p + 1] is the column of position p, a function   *)
(* from the tag of each state to its backpointers map, which is keyed by   *)
(* the tag of a state of position p - 1 and holds [state, prob], state     *)
(* being the tag of a state of position p - 2 or NilState.                 *)
(***************************************************************************)
Backpointer(state, prob) == [state |-> state, prob |-> prob]

\* a Go map read of a missing key gives the zero value
BPLookup(bps, k) == IF k \in DOMAIN bps THEN bps[k] ELSE Backpointer(NilState, 0)

\* adds log(beamFactor) to the highest score instead of subtracting it
SubAdds(a, b) == IF a = NegInf THEN NegInf ELSE a + b

\* -Inf minus a finite value is -Inf
Sub(a, b) == IF a = NegInf THEN NegInf ELSE a - b
\* also skips the t1 whose score equals the beam
SurvivorsAboveBeam(col, t2, bm) == {t1 \in DOMAIN col[t2] : col[t2][t1].prob > bm}

\* the t1 that "if t1bp.prob < beam { continue }" lets through
Survivors(col, t2, bm) == {t1 \in DOMAIN col[t2] : ~(col[t2][t1].prob < bm)}

Skipped(col, bm) == \E t2 \in DOMAIN col : Survivors(col, t2, bm) # DOMAIN col[t2]

\* leaves the emission score out of the sum
CandProbNoEmission(m, col, tagProb, t1, t2, t3) ==
    Add(TrigramProb(m, <<t1, t2, t3>>).p, col[t2][t1].prob)

\* prob := trigramProb + tagProb + t1bp.prob
CandProb(m, col, tagProb, t1, t2, t3) ==
    Add(Add(TrigramProb(m, <<t1, t2, t3>>).p, tagProb), col[t2][t1].prob)

SetMin(S) == CHOOSE x \in S : \A y \in S : x <= y

\* keeps the lowest-scoring t1 instead of the highest
HighestProbMin(m, col, bm, tagProb, t2, t3) ==
    LET cands == {CandProb(m, col, tagProb, t1, t2, t3) : t1 \in Survivors(col, t2, bm)}
    IN  IF cands = {} THEN NegInf ELSE SetMin(cands)

\* highestProb after the loop over t2.backpointers
HighestProb(m, col, bm, tagProb, t2, t3) ==
    SetMax({CandProb(m, col, tagProb, t1, t2, t3) : t1 \in Survivors(col, t2, bm)}
           \cup {NegInf})
\* points back to any t1 that was not skipped, not to one with the highest prob
BackpointersAnySurvivor(m, col, bm, tagProb, t2, t3) ==
    LET hp == HighestProb(m, col, bm, tagProb, t2, t3)
    IN  IF hp = NegInf
        THEN {Backpointer(NilState, NegInf)}
        ELSE {Backpointer(t1, hp) : t1 \in Survivors(col, t2, bm)}

\* The backpointers the loop can leave for (t2, t3): "prob > highestProb" is
\* strict, so of several t1 with the highest prob the first one iterated wins,
\* and a map is iterated in any order.
Backpointers(m, col, bm, tagProb, t2, t3) ==
    LET hp == HighestProb(m, col, bm, tagProb, t2, t3)
    IN  IF hp = NegInf
        THEN {Backpointer(NilState, NegInf)}
        ELSE {Backpointer(t1, hp) :
                t1 \in {u \in Survivors(col, t2, bm) :
                          CandProb(m, col, tagProb, u, t2, t3) = hp}}

\* the states newTrellisState(tag) can end as, for one tag
StatesFor(m, col, bm, tagProb, t3) ==
    LET U == UNION {Backpointers(m, col, bm, tagProb, t2, t3) : t2 \in DOMAIN col}
    IN  {f \in [DOMAIN col -> U] :
           \A t2 \in DOMAIN col : f[t2] \in Backpointers(m, col, bm, tagProb, t2, t3)}

\* the columns one iteration of viterbi's loop can build
NextColumns(m, col, bm, tagProbs) ==
    LET U == UNION {StatesFor(m, col, bm, tagProbs[t3], t3) : t3 \in DOMAIN tagProbs}
    IN  {c \in [DOMAIN tagProbs -> U] :
           \A t3 \in DOMAIN tagProbs : c[t3] \in StatesFor(m, col, bm, tagProbs[t3], t3)}

ColumnHighestProb(c) ==
    SetMax(UNION {{c[t3][t2].prob : t2 \in DOMAIN c[t3]} : t3 \in DOMAIN c}
           \cup {NegInf})

TrigramPanics(m, col, bm, tagProbs) ==
    \E t3 \in DOMAIN tagProbs : \E t2 \in DOMAIN col : \E t1 \in Survivors(col, t2, bm) :
        TrigramProb(m, <<t1, t2, t3>>).panic

\* never reports an empty distribution
NoTagProbsNever(tagProbs) == FALSE

\* len(tagProbs) == 0
NoTagProbs(tagProbs) == DOMAIN tagProbs = {}

\* ends with any state that has a finite score, not the best one
FinalsAny(col) ==
    {<<t3, t2>> \in (DOMAIN col) \X UNION {DOMAIN col[t] : t \in DOMAIN col} :
        t2 \in DOMAIN col[t3] /\ col[t3][t2].prob > NegInf}

\* the (tail, beforeTail) pairs the search of the last column can end with
Finals(col) ==
    LET hp == ColumnHighestProb(col)
    IN  IF hp = NegInf
        THEN {}
        ELSE {<<t3, t2>> \in (DOMAIN col) \X UNION {DOMAIN col[t] : t \in DOMAIN col} :
                t2 \in DOMAIN col[t3] /\ col[t3][t2].prob = hp}

RECURSIVE TraceBackSkip(_, _, _, _)
\* forgets to collect the state it starts from
TraceBackSkip(h, pos, tail, beforeTail) ==
    IF beforeTail = NilState
    THEN << >>
    ELSE <<beforeTail.Tag>> \o
         TraceBackSkip(h, pos - 1, beforeTail, BPLookup(h[pos + 1][tail], beforeTail).state)

RECURSIVE TraceBack(_, _, _, _)
\* the loop of highestProbabilitySequence: the tags in the order collected
TraceBack(h, pos, tail, beforeTail) ==
    <<tail.Tag>> \o
    (IF beforeTail = NilState
     THEN << >>
     ELSE TraceBack(h, pos - 1, beforeTail, BPLookup(h[pos + 1][tail], beforeTail).state))

Reverse(s) == [k \in 1 .. Len(s) |-> s[Len(s) + 1 - k]]

\* keeps the tag of the end marker
TagsOfKeepEnd(nb, tagNumbers) ==
    [k \in 1 .. (IF Len(tagNumbers) > 2 THEN Len(tagNumbers) - 2 ELSE 0) |->
        Label(nb, tagNumbers[k + 2])]

\* for i := 2; i < len(tagNumbers)-1; i++ { tags = append(tags, Label(tagNumbers[i])) }
TagsOf(nb, tagNumbers) ==
    [k \in 1 .. (IF Len(tagNumbers) > 3 THEN Len(tagNumbers) - 3 ELSE 0) |->
        Label(nb, tagNumbers[k + 2])]

(***************************************************************************)
(* The models the decoder is run on.  The tag numbering and the lexicon    *)
(* entries of the two markers are those FrequencyCollector.Process gives   *)
(* every trained model: "<START>" and "<END>" are words of the lexicon,    *)
(* seen with the tag of the same name only.                                *)
(***************************************************************************)
NounLabel == <<"N","O","U","N">>
VerbLabel == <<"V","E","R","B">>

TrainedNumberer ==
    [labelNumbers |-> (StartToken :> 0) @@ (NounLabel :> 1) @@ (VerbLabel :> 2)
                      @@ (EndToken :> 3),
     labels |-> <<StartToken, NounLabel, VerbLabel, EndToken>>]

TagS == MkTag(0, FALSE)
TagN == MkTag(1, FALSE)
TagV == MkTag(2, FALSE)
TagE == MkTag(3, FALSE)
ModelTags == {TagS, TagN, TagV, TagE}

WordCan == <<"c","a","n">>
WordDog == <<"d","o","g">>
\* sentence-initial "Can": found through its lower-cased form
WordCapCan == <<"C","a","n">>
\* a word the lexicon does not know
WordUnknown == <<"z","u">>

SentenceWords == {WordCapCan, WordDog, WordUnknown, EndToken}

EmisScores == {0 - 1, 0 - 2}
TransScores == {0 - 1, 0 - 3}
UnigramScores == {0 - 2, NegInf}

WordTagProbsOf(e) ==
    (StartToken :> (TagS :> 0)) @@ (EndToken :> (TagE :> 0))
    @@ (WordDog :> (TagN :> 0 - 1))
    @@ (WordCan :> ((TagN :> 0 - 1) @@ (TagV :> e)))

FixedHandler == [kind |-> "fixed", probs |-> (TagN :> 0 - 2) @@ (TagV :> 0 - 2)]

Lexicons ==
    {[wordTagProbs |-> WordTagProbsOf(e), fallback |-> f] :
        e \in EmisScores, f \in {NoHandler, FixedHandler}}

VariedBigrams == {<<TagS, TagV>>, <<TagN, TagE>>, <<TagV, TagE>>}

TrigramModels ==
    {[unigramProbs |-> [t \in ModelTags |-> u],
      bigramProbs |-> b @@ (<<TagS, TagN>> :> 0 - 1) @@ (<<TagN, TagV>> :> 0 - 1),
      trigramProbs |-> (<<TagS, TagV, TagE>> :> b[<<TagV, TagE>>])
                       @@ (<<TagS, TagS, TagE>> :> 0 - 2)] :
        u \in UnigramScores, b \in [VariedBigrams -> TransScores]}

Sentences == UNION {[1 .. n -> SentenceWords] : n \in 0 .. MaxLen}

BeamFactors == {Pow2(k) : k \in 0 .. MaxBeamExp}

NoRun == [ran |-> FALSE]
NoResult == [returned |-> FALSE]

(***************************************************************************)
(* Training state (unused by the decoder's specification).                 *)
(***************************************************************************)
NewStringStringNumberer == [labelNumbers |-> EmptyMap, labels |-> << >>]

NewFrequencyCollector ==
    [numberer |-> NewStringStringNumberer, lexicon |-> EmptyMap,
     unigrams |-> EmptyMap, bigrams |-> EmptyMap, trigrams |-> EmptyMap]

NoModel == [built |-> FALSE]
NoQuery == [asked |-> FALSE]

\* the decoding sessions that share one tagger, and a session before Tag
Sessions == {"a", "b"}

IdleSession ==
    [pc |-> "idle", sentence |-> << >>, start |-> NewStringStringNumberer,
     tokens |-> << >>, i |-> 0, heap |-> << >>, beam |-> 0, result |-> NoResult]

TrainInit ==
    /\ fc = NewFrequencyCollector /\ nProcessed = 0 /\ nTokens = 0 /\ tm = NoModel /\ query = NoQuery
    /\ wh = [built |-> FALSE] /\ call = [asked |-> FALSE]
    /\ sess = [s \in Sessions |-> IdleSession]

(***************************************************************************)
(* float64 values of the transition model, kept exact: a value is a        *)
(* fraction [n, d] in lowest terms with d >= 0; d = 0 holds what a         *)
(* division by zero gives, NaN (0/0), +Inf (1/0) and -Inf (-1/0).          *)
(***************************************************************************)
RECURSIVE GCD(_, _)
GCD(a, b) == IF b = 0 THEN a ELSE GCD(b, a % b)

Abs(x) == IF x < 0 THEN 0 - x ELSE x

Sign(x) == IF x < 0 THEN 0 - 1 ELSE IF x > 0 THEN 1 ELSE 0

\* float64(x) / float64(y) of two ints
FDiv(x, y) ==
    IF y = 0
    THEN [n |-> Sign(x), d |-> 0]
    ELSE LET g == GCD(Abs(x), Abs(y))
         IN  [n |-> Sign(y) * (x \div g), d |-> Abs(y) \div g]

NaN == [n |-> 0, d |-> 0]
FZero == [n |-> 0, d |-> 1]
FOne == [n |-> 1, d |-> 1]

IsNaN(a) == a.n = 0 /\ a.d = 0

\* a > b; false when either is NaN
FGt(a, b) ==
    IF IsNaN(a) \/ IsNaN(b)
    THEN FALSE
    ELSE IF a.d = 0 /\ b.d = 0
         THEN a.n > b.n
         ELSE a.n * b.d > b.n * a.d

FMul(a, b) == FDiv(a.n * b.n, a.d * b.d)

FAdd(a, b) ==
    IF a.d = 0 /\ b.d = 0
    THEN IF a.n = b.n THEN a ELSE NaN
    ELSE FDiv(a.n * b.d + b.n * a.d, a.d * b.d)

\* math.Log(x), as the value it is the logarithm of: Log(FZero) is -Inf,
\* Log(FOne) is 0, and the logarithm of NaN or of a negative value is NaN
Log(x) == IF IsNaN(x) \/ x.n < 0 THEN [logOf |-> NaN] ELSE [logOf |-> x]

(***************************************************************************)
(* FrequencyCollector (model).                                             *)
(***************************************************************************)
\* a conllx.Token with a form and a part-of-speech tag
Token(form, pos) == [form |-> form, pos |-> pos]

\* puts one start marker in front instead of two
addMarkersOneStart(s) == <<Token(StartToken, StartToken)>> \o s \o <<Token(EndToken, EndToken)>>

\* start := []conllx.Token{*startToken, *startToken}; append(start, sentence...);
\* append(sentence, *endToken)
addMarkers(s) ==
    <<Token(StartToken, StartToken), Token(StartToken, StartToken)>>
    \o s \o <<Token(EndToken, EndToken)>>

RECURSIVE NumberAll(_, _)
\* the numberer after Number(pos) of every token of s, in order
NumberAll(nb, s) ==
    IF s = << >> THEN nb ELSE NumberAll(AfterNumber(nb, Head(s).pos), Tail(s))

sentenceToWordTags(nb, s) ==
    [k \in 1 .. Len(s) |->
        [word |-> s[k].form,
         tag |-> NumberOf(NumberAll(nb, SubSeq(s, 1, k - 1)), s[k].pos),
         isUpper |-> IsUpper(s[k].form[1])]]

TagOf(wt) == MkTag(wt.tag, wt.isUpper)

\* freqs[key]++
Inc(freqs, key) ==
    IF key \in DOMAIN freqs
    THEN [freqs EXCEPT ![key] = @ + 1]
    ELSE freqs @@ (key :> 1)

addLexiconEntry(lex, wt) ==
    LET tagFreqs == IF wt.word \in DOMAIN lex THEN lex[wt.word] ELSE EmptyMap
    IN  [w \in DOMAIN lex \cup {wt.word} |->
            IF w = wt.word THEN Inc(tagFreqs, TagOf(wt)) ELSE lex[w]]

addUnigram(unigrams, wt) == Inc(unigrams, TagOf(wt))

addBigram(bigrams, wt, wt2) == Inc(bigrams, <<TagOf(wt), TagOf(wt2)>>)

addTrigram(trigrams, wt, wt2, wt3) == Inc(trigrams, <<TagOf(wt), TagOf(wt2), TagOf(wt3)>>)

RECURSIVE CountFrom(_, _, _)
\* the loop of Process over wordTags, from (1-based) place k on
CountFrom(c, wts, k) ==
    IF k > Len(wts)
    THEN c
    ELSE CountFrom(
            [c EXCEPT
                !.lexicon = addLexiconEntry(@, wts[k]),
                !.unigrams = addUnigram(@, wts[k]),
                !.bigrams = IF k > 1 THEN addBigram(@, wts[k - 1], wts[k]) ELSE @,
                !.trigrams = IF k > 2
                             THEN addTrigram(@, wts[k - 2], wts[k - 1], wts[k])
                             ELSE @],
            wts, k + 1)

\* the collector after Process(s)
Processed(c, s) ==
    LET padded == addMarkers(s)
        wordTags == sentenceToWordTags(c.numberer, padded)
    IN  CountFrom([c EXCEPT !.numberer = NumberAll(@, padded)], wordTags, 1)

(***************************************************************************)
(* NewLinearInterpolationModel (trigrams/linear_interpolation.go).         *)
(***************************************************************************)
RECURSIVE SumOf(_, _)
\* the sum of freqs over a set of its keys
SumOf(freqs, keys) ==
    IF keys = {}
    THEN 0
    ELSE LET k == CHOOSE x \in keys : TRUE
         IN  freqs[k] + SumOf(freqs, keys \ {k})

corpusSize(unigramFreqs) == SumOf(unigramFreqs, DOMAIN unigramFreqs)

\* freqs[key] of a Go map: zero for a missing key
Freq(freqs, key) == IF key \in DOMAIN freqs THEN freqs[key] ELSE 0

l3p(bigramFreqs, trigramFreqs, t) ==
    IF <<t[1], t[2]>> \in DOMAIN bigramFreqs
    THEN FDiv(trigramFreqs[t] - 1, bigramFreqs[<<t[1], t[2]>>] - 1)
    ELSE FZero

l2p(unigramFreqs, bigramFreqs, t) ==
    IF <<t[2], t[3]>> \in DOMAIN bigramFreqs /\ t[2] \in DOMAIN unigramFreqs
    THEN FDiv(bigramFreqs[<<t[2], t[3]>>] - 1, unigramFreqs[t[2]] - 1)
    ELSE FZero

l1p(size, unigramFreqs, t) ==
    IF t[3] \in DOMAIN unigramFreqs
    THEN FDiv(unigramFreqs[t[3]] - 1, size - 1)
    ELSE FZero
\* credits the unigram accumulator on every tie of the unigram estimate
CreditedTiesToUnigram(size, unigramFreqs, bigramFreqs, trigramFreqs, t) ==
    LET p1 == l1p(size, unigramFreqs, t)
        p2 == l2p(unigramFreqs, bigramFreqs, t)
        p3 == l3p(bigramFreqs, trigramFreqs, t)
    IN  IF ~FGt(p2, p1) /\ ~FGt(p3, p1) /\ ~IsNaN(p1) /\ ~IsNaN(p2) /\ ~IsNaN(p3) THEN 1
        ELSE IF FGt(p2, p1) /\ FGt(p2, p3) THEN 2
        ELSE 3

\* the accumulator (1, 2 or 3) a trigram's count is added to
Credited(size, unigramFreqs, bigramFreqs, trigramFreqs, t) ==
    LET p1 == l1p(size, unigramFreqs, t)
        p2 == l2p(unigramFreqs, bigramFreqs, t)
        p3 == l3p(bigramFreqs, trigramFreqs, t)
    IN  IF FGt(p1, p2) /\ FGt(p1, p3) THEN 1
        ELSE IF FGt(p2, p1) /\ FGt(p2, p3) THEN 2
        ELSE 3

calculateLambdas(size, unigramFreqs, bigramFreqs, trigramFreqs) ==
    LET lf(a) == SumOf(trigramFreqs,
                       {t \in DOMAIN trigramFreqs :
                           Credited(size, unigramFreqs, bigramFreqs, trigramFreqs, t) = a})
        totalTrigrams == lf(1) + lf(2) + lf(3)
    IN  [L1 |-> FDiv(lf(1), totalTrigrams),
         L2 |-> FDiv(lf(2), totalTrigrams),
         L3 |-> FDiv(lf(3), totalTrigrams)]

calcUnigramProbs(size, sp, unigramFreqs) ==
    [u \in DOMAIN unigramFreqs |-> Log(FMul(sp.L1, FDiv(unigramFreqs[u], size)))]

calcBigramProbs(size, sp, unigramFreqs, bigramFreqs) ==
    [b \in DOMAIN bigramFreqs |->
        LET unigramProb == FDiv(Freq(unigramFreqs, b[2]), size)
            bigramProb == FDiv(bigramFreqs[b], Freq(unigramFreqs, b[1]))
        IN  Log(FAdd(FMul(sp.L1, unigramProb), FMul(sp.L2, bigramProb)))]
\* leaves the smoothing weights out of the sum
calcTrigramProbsUnweighted(size, sp, unigramFreqs, bigramFreqs, trigramFreqs) ==
    [t \in DOMAIN trigramFreqs |->
        LET unigramProb == FDiv(Freq(unigramFreqs, t[3]), size)
            bigramProb == FDiv(Freq(bigramFreqs, <<t[2], t[3]>>), Freq(unigramFreqs, t[2]))
            trigramProb == FDiv(trigramFreqs[t], Freq(bigramFreqs, <<t[1], t[2]>>))
        IN  Log(FAdd(FAdd(unigramProb, bigramProb), trigramProb))]

calcTrigramProbs(size, sp, unigramFreqs, bigramFreqs, trigramFreqs) ==
    [t \in DOMAIN trigramFreqs |->
        LET unigramProb == FDiv(Freq(unigramFreqs, t[3]), size)
            bigramProb == FDiv(Freq(bigramFreqs, <<t[2], t[3]>>), Freq(unigramFreqs, t[2]))
            trigramProb == FDiv(trigramFreqs[t], Freq(bigramFreqs, <<t[1], t[2]>>))
        IN  Log(FAdd(FAdd(FMul(sp.L1, unigramProb), FMul(sp.L2, bigramProb)),
                     FMul(sp.L3, trigramProb)))]

\* the model NewLinearInterpolationModel(c.Model()) returns
LinearInterpolationModelOf(c) ==
    LET size == corpusSize(c.unigrams)
        sp == calculateLambdas(size, c.unigrams, c.bigrams, c.trigrams)
    IN  [built |-> TRUE,
         smoothingParameters |-> sp,
         unigramProbs |-> calcUnigramProbs(size, sp, c.unigrams),
         bigramProbs |-> calcBigramProbs(size, sp, c.unigrams, c.bigrams),
         trigramProbs |-> calcTrigramProbs(size, sp, c.unigrams, c.bigrams, c.trigrams)]

(***************************************************************************)
(* More float64 arithmetic on exact fractions, for the suffix handler.     *)
(***************************************************************************)
FNeg(a) == [n |-> 0 - a.n, d |-> a.d]

FSub(a, b) == FAdd(a, FNeg(b))

\* a / b of two float64 values
FQuot(a, b) == FDiv(a.n * b.d, a.d * b.n)

\* sort.Search's predicate and the comparisons of probabilities: a <= b
FLeq(a, b) == ~IsNaN(a) /\ ~IsNaN(b) /\ ~FGt(a, b)

\* math.Sqrt, rounded down to a multiple of 1 / SqrtGrid (float64 rounds the
\* root too, to 53 bits); the root of NaN or of a negative value is NaN
Sqrt(x) ==
    IF IsNaN(x) \/ x.n < 0 THEN NaN
    ELSE IF x.d = 0 THEN x
    ELSE LET k == CHOOSE j \in 0 .. 2 * SqrtGrid :
                     /\ j * j * x.d <= x.n * SqrtGrid * SqrtGrid
                     /\ (j = 2 * SqrtGrid
                            \/ (j + 1) * (j + 1) * x.d > x.n * SqrtGrid * SqrtGrid)
         IN  FDiv(k, SqrtGrid)

(***************************************************************************)
(* Lexicon and SubstLexicon construction (words/lexicon.go).               *)
(***************************************************************************)
\* P(w|t) taken over the occurrences of the word instead of those of the tag
calculateWordTagProbsByWord(wtf, uf) ==
    [word \in DOMAIN wtf |->
        [tag \in DOMAIN wtf[word] |->
            Log(FDiv(wtf[word][tag], SumOf(wtf[word], DOMAIN wtf[word])))]]

\* P(w|t) = f(w,t) / f(t), in log-space
calculateWordTagProbs(wtf, uf) ==
    [word \in DOMAIN wtf |->
        [tag \in DOMAIN wtf[word] |-> Log(FDiv(wtf[word][tag], Freq(uf, tag)))]]

NewLexicon(wtf, uf) ==
    [kind |-> "Lexicon", wordTagProbs |-> calculateWordTagProbs(wtf, uf),
     fallback |-> NoHandler]

NewLexiconWithFallback(wtf, uf, fallback) ==
    [kind |-> "Lexicon", wordTagProbs |-> calculateWordTagProbs(wtf, uf),
     fallback |-> fallback]

NewSubstLexiconWithFallback(lex, fallback, substitutions) ==
    [kind |-> "SubstLexicon", lexicon |-> lex, substitutions |-> substitutions,
     fallback |-> fallback]

NewSubstLexicon(lex, substitutions) ==
    NewSubstLexiconWithFallback(lex, NoHandler, substitutions)

\* a Substitution whose pattern matches one literal character
Substitution(pattern, replacement) == [Pattern |-> pattern, Replacement |-> replacement]

RECURSIVE ReplaceAllString(_, _)
\* subst.Pattern.ReplaceAllString(word, subst.Replacement)
ReplaceAllString(subst, word) ==
    IF word = << >>
    THEN << >>
    ELSE (IF Head(word) = subst.Pattern THEN subst.Replacement ELSE <<Head(word)>>)
         \o ReplaceAllString(subst, Tail(word))

RECURSIVE ApplySubstitutions(_, _)
\* the loop of SubstLexicon.TagProbs over l.substitutions, in order
ApplySubstitutions(substitutions, word) ==
    IF substitutions = << >>
    THEN word
    ELSE ApplySubstitutions(Tail(substitutions),
                            ReplaceAllString(Head(substitutions), word))

(***************************************************************************)
(* Word classes of the suffix handler (words/doc.go).                      *)
(***************************************************************************)
Digits == {"0", "1", "2", "3", "4", "5", "6", "7", "8", "9"}

IsDigit(r) == r \in Digits

IsLetter(r) == IsUpper(r) \/ \E k \in DOMAIN LowerRunes : LowerRunes[k] = r

\* cardinalPattern.MatchString(word), for the pattern
\* ^([0-9]+)|([0-9]+\.)|([0-9.,:-]+[0-9]+)|([0-9]+[a-zA-Z]{1,3})$
\* whose ^ binds to the first alternative only and $ to the last
CardinalMatch(word) ==
    \/ Len(word) > 0 /\ IsDigit(word[1])
    \/ \E k \in 1 .. Len(word) - 1 : IsDigit(word[k]) /\ word[k + 1] = "."
    \/ \E k \in 1 .. Len(word) - 1 :
          (IsDigit(word[k]) \/ word[k] \in {".", ",", ":", "-"}) /\ IsDigit(word[k + 1])
    \/ \E k \in 1 .. Len(word) - 1 :
          /\ IsDigit(word[k])
          /\ Len(word) - k <= 3
          /\ \A j \in k + 1 .. Len(word) : IsLetter(word[j])

ContainsDash(word) == \E k \in DOMAIN word : word[k] = "-"

\* the tree SuffixHandler.selectSuffixTree picks; the word is not empty
ClassOf(word) ==
    IF IsUpper(word[1]) THEN "upper"
    ELSE IF CardinalMatch(word) THEN "cardinal"
    ELSE IF ContainsDash(word) THEN "dash"
    ELSE "lower"

Classes == {"upper", "lower", "dash", "cardinal"}

\* a nil *wordSuffixTree
NilTree == "nil"

\* selectSuffixTreeWithCutoffs(config, word, wordFreq); the word is not empty
selectSuffixTreeWithCutoffs(config, word, wordFreq) ==
    IF IsUpper(word[1])
    THEN (IF wordFreq <= config.UpperMaxFreq THEN "upper" ELSE NilTree)
    ELSE IF CardinalMatch(word)
    THEN (IF wordFreq <= config.CardinalMaxFreq THEN "cardinal" ELSE NilTree)
    ELSE IF ContainsDash(word)
    THEN (IF wordFreq <= config.DashMaxFreq THEN "dash" ELSE NilTree)
    ELSE (IF wordFreq <= config.LowerMaxFreq THEN "lower" ELSE NilTree)

\* tests for the dash before the cardinal pattern
selectMapDashFirst(word) ==
    IF IsUpper(word[1]) THEN "upper"
    ELSE IF ContainsDash(word) THEN "dash"
    ELSE IF CardinalMatch(word) THEN "cardinal"
    ELSE "lower"

\* the map LookupSuffixHandler.selectMap picks; the word is not empty
selectMap(word) ==
    IF IsUpper(word[1]) THEN "upper"
    ELSE IF CardinalMatch(word) THEN "cardinal"
    ELSE IF ContainsDash(word) THEN "dash"
    ELSE "lower"

\* the cutoff of selectSuffixTreeWithCutoffs for the class of a word
MaxFreqOf(config, class) ==
    IF class = "upper" THEN config.UpperMaxFreq
    ELSE IF class = "cardinal" THEN config.CardinalMaxFreq
    ELSE IF class = "dash" THEN config.DashMaxFreq
    ELSE config.LowerMaxFreq

DefaultSuffixHandlerConfig ==
    [MaxSuffixLen |-> 2, UpperMaxFreq |-> 2, LowerMaxFreq |-> 8, DashMaxFreq |-> 4,
     MaxTags |-> 10, CardinalMaxFreq |-> 10]

(***************************************************************************)
(* wordSuffixTree (words/suffix_tree.go).  A tree is [unigramFreqs, nodes, *)
(* maxLength, theta]; nodes maps the path of a treeNode, the reversed      *)
(* suffix that leads to it from the root, to its [tagFreqs, tagFreq].      *)
(***************************************************************************)
\* reverse(runes) and the cut to maxLength
RevTrunc(word, maxLength) ==
    LET rev == Reverse(word)
    IN  IF Len(rev) > maxLength THEN SubSeq(rev, 1, maxLength) ELSE rev

newTreeNode == [tagFreqs |-> EmptyMap, tagFreq |-> 0]

newWordSuffixTree(unigramFreqs, skip, theta, maxLength) ==
    LET kept == {u \in DOMAIN unigramFreqs : u.Tag \notin skip}
    IN  [unigramFreqs |-> unigramFreqs,
         nodes |-> (<< >> :> [tagFreqs |-> [u \in kept |-> unigramFreqs[u]],
                              tagFreq |-> SumOf(unigramFreqs, kept)]),
         maxLength |-> maxLength,
         theta |-> theta]

\* adds the frequencies of the tags but not their sum to n.tagFreq
AddTagFreqsNoTotal(node, tf) ==
    [tagFreqs |-> [tag \in DOMAIN node.tagFreqs \cup DOMAIN tf |->
                      Freq(node.tagFreqs, tag) + Freq(tf, tag)],
     tagFreq |-> node.tagFreq]

\* the loop of addSuffix over tf at one node
AddTagFreqs(node, tf) ==
    [tagFreqs |-> [tag \in DOMAIN node.tagFreqs \cup DOMAIN tf |->
                      Freq(node.tagFreqs, tag) + Freq(tf, tag)],
     tagFreq |-> node.tagFreq + SumOf(tf, DOMAIN tf)]

RECURSIVE addSuffix(_, _, _, _)
\* treeNode.addSuffix from the node of the first k runes of revSuffix on
addSuffix(nodes, revSuffix, k, tf) ==
    LET path == SubSeq(revSuffix, 1, k)
        node == IF path \in DOMAIN nodes THEN nodes[path] ELSE newTreeNode
        added == [p \in DOMAIN nodes \cup {path} |->
                     IF p = path THEN AddTagFreqs(node, tf) ELSE nodes[p]]
    IN  IF k = Len(revSuffix) THEN added ELSE addSuffix(added, revSuffix, k + 1, tf)

addWord(tree, word, tf) ==
    [tree EXCEPT !.nodes = addSuffix(@, RevTrunc(word, tree.maxLength), 0, tf)]

calcTheta(uf, skip) ==
    LET pAvg == FDiv(1, Cardinality(DOMAIN uf))
        kept == {u \in DOMAIN uf : u.Tag \notin skip}
        freqSum == SumOf(uf, kept)
        sq(u) == LET diff == FSub(FDiv(uf[u], freqSum), pAvg) IN FMul(diff, diff)
        sum[S \in SUBSET kept] ==
            IF S = {} THEN FZero
            ELSE LET u == CHOOSE x \in S : TRUE IN FAdd(sq(u), sum[S \ {u}])
    IN  Sqrt(FQuot(sum[kept], FDiv(Cardinality(DOMAIN uf) - 1, 1)))

\* divides by the share of the tag in the corpus instead of its count
bayesianInversionByProbability(uf, tp) ==
    [tag \in DOMAIN tp |->
        FQuot(tp[tag], FDiv(Freq(uf, tag), SumOf(uf, DOMAIN uf)))]

\* tp[tag] = prob / float64(uf[model.Unigram{T1: tag}])
bayesianInversion(uf, tp) ==
    [tag \in DOMAIN tp |-> FQuot(tp[tag], FDiv(Freq(uf, tag), 1))]

\* the first loop of treeNode.suffixTagProbs at one node
NodeTagProbs(theta, node, tp) ==
    [tag \in DOMAIN tp |->
        LET nodeProb == IF tag \in DOMAIN node.tagFreqs
                        THEN FDiv(node.tagFreqs[tag], node.tagFreq)
                        ELSE FZero
        IN  FQuot(FAdd(nodeProb, FMul(theta, tp[tag])), FAdd(theta, FOne))]

RECURSIVE treeNodeSuffixTagProbs(_, _, _, _)
\* treeNode.suffixTagProbs at the node of the first k runes of revSuffix
treeNodeSuffixTagProbs(tree, revSuffix, k, tp) ==
    LET node == tree.nodes[SubSeq(revSuffix, 1, k)]
        tp2 == NodeTagProbs(tree.theta, node, tp)
    IN  IF k = Len(revSuffix)
        THEN bayesianInversion(tree.unigramFreqs, tp2)
        ELSE IF SubSeq(revSuffix, 1, k + 1) \in DOMAIN tree.nodes
             THEN treeNodeSuffixTagProbs(tree, revSuffix, k + 1, tp2)
             ELSE bayesianInversion(tree.unigramFreqs, tp2)

\* wordSuffixTree.suffixTagProbs
suffixTagProbs(tree, word) ==
    treeNodeSuffixTagProbs(tree, RevTrunc(word, tree.maxLength), 0,
                           [tag \in DOMAIN tree.nodes[<< >>].tagFreqs |-> FZero])

\* searches with sorted[i].prob >= prob, which keeps the lowest scores
SearchInsertionPointGeq(sorted, prob) ==
    IF \E j \in DOMAIN sorted : FLeq(prob, sorted[j].prob)
    THEN (CHOOSE j \in DOMAIN sorted :
             /\ FLeq(prob, sorted[j].prob)
             /\ \A h \in 1 .. j - 1 : ~FLeq(prob, sorted[h].prob)) - 1
    ELSE Len(sorted)

\* sort.Search(len(sorted), sorted[i].prob <= prob)
SearchInsertionPoint(sorted, prob) ==
    IF \E j \in DOMAIN sorted : FLeq(sorted[j].prob, prob)
    THEN (CHOOSE j \in DOMAIN sorted :
             /\ FLeq(sorted[j].prob, prob)
             /\ \A h \in 1 .. j - 1 : ~FLeq(sorted[h].prob, prob)) - 1
    ELSE Len(sorted)

\* insertWithLimit(slice, limit, index, value), index 0-based
insertWithLimit(slice, limit, index, value) ==
    LET room == IF Len(slice) < limit THEN Len(slice) + 1 ELSE Len(slice)
    IN  [j \in 1 .. room |->
            IF j < index + 1 THEN slice[j]
            ELSE IF j = index + 1 THEN value
            ELSE slice[j - 1]]

RECURSIVE BestNSorted(_, _, _, _)
\* the first loop of bestNLogSpace, over the tags in the order given
BestNSorted(tp, n, order, sorted) ==
    IF order = << >>
    THEN sorted
    ELSE LET tag == Head(order)
             ip == SearchInsertionPoint(sorted, tp[tag])
         IN  BestNSorted(tp, n, Tail(order),
                         IF ip < n
                         THEN insertWithLimit(sorted, n, ip, [tag |-> tag, prob |-> tp[tag]])
                         ELSE sorted)

RECURSIVE IterationOrders(_)
\* the orders a range over a Go map can visit its keys in
IterationOrders(keys) ==
    IF keys = {}
    THEN {<< >>}
    ELSE UNION {{<<k>> \o o : o \in IterationOrders(keys \ {k})} : k \in keys}

\* the maps bestNLogSpace(tp, n) can return, one for each iteration order
bestNLogSpace(tp, n) ==
    {LET sorted == BestNSorted(tp, n, o, << >>)
     IN  [tag \in {sorted[j].tag : j \in DOMAIN sorted} |-> Log(tp[tag])] :
        o \in IterationOrders(DOMAIN tp)}

(***************************************************************************)
(* SuffixHandler and LookupSuffixHandler (words/doc.go).                   *)
(***************************************************************************)
WordFreq(tagFreqs) == SumOf(tagFreqs, DOMAIN tagFreqs)

RECURSIVE AddWords(_, _, _, _)
\* the loop of NewSuffixHandler over m.WordTagFreqs()
AddWords(trees, config, wtf, words) ==
    IF words = {}
    THEN trees
    ELSE LET word == CHOOSE w \in words : TRUE
             rest == words \ {word}
         IN  IF word = StartToken \/ word = EndToken \/ Len(word) = 0
             THEN AddWords(trees, config, wtf, rest)
             ELSE LET t == selectSuffixTreeWithCutoffs(config, word, WordFreq(wtf[word]))
                  IN  IF t # NilTree
                      THEN AddWords([trees EXCEPT ![t] = addWord(@, word, wtf[word])],
                                    config, wtf, rest)
                      ELSE AddWords(trees, config, wtf, rest)

\* NewSuffixHandler(config, m) for the model of collector c; the two Number
\* calls are made on the model's tag numberer
NewSuffixHandler(config, c) ==
    LET nb == AfterNumber(c.numberer, StartToken)
        skip == {NumberOf(c.numberer, StartToken), NumberOf(nb, EndToken)}
        theta == calcTheta(c.unigrams, skip)
        tree == newWordSuffixTree(c.unigrams, skip, theta, config.MaxSuffixLen)
    IN  [kind |-> "SuffixHandler",
         trees |-> AddWords([class \in Classes |-> tree], config, c.lexicon,
                            DOMAIN c.lexicon),
         maxTags |-> config.MaxTags]

\* the numberer after NewSuffixHandler's two Number calls
NumbererAfterNewSuffixHandler(nb) == AfterNumber(AfterNumber(nb, StartToken), EndToken)

\* the maps SuffixHandler.TagProbs(word) can return; the word is not empty
SuffixHandlerTagProbs(h, word) ==
    bestNLogSpace(suffixTagProbs(h.trees[ClassOf(word)], word), h.maxTags)

\* the children of the node of a path
Children(tree, path) ==
    {p \in DOMAIN tree.nodes : Len(p) = Len(path) + 1 /\ SubSeq(p, 1, Len(path)) = path}

RECURSIVE convertTreeRecursive(_, _, _)
\* the tagProbs convertTreeRecursive inverts at every node below and at path,
\* as a function from the paths (the keys "suffix") to them
convertTreeRecursive(tree, path, tagProbs) ==
    LET n == tree.nodes[path]
        here == [tag \in DOMAIN tagProbs |->
                    LET f == IF tag \in DOMAIN n.tagFreqs
                             THEN FDiv(n.tagFreqs[tag], n.tagFreq)
                             ELSE FZero
                    IN  FQuot(FAdd(f, FMul(tree.theta, tagProbs[tag])),
                              FAdd(tree.theta, FOne))]
        below[S \in SUBSET Children(tree, path)] ==
            IF S = {} THEN EmptyMap
            ELSE LET cn == CHOOSE x \in S : TRUE
                 IN  convertTreeRecursive(tree, cn, here) @@ below[S \ {cn}]
    IN  (path :> bayesianInversion(tree.unigramFreqs, here))
        @@ below[Children(tree, path)]

RECURSIVE OnePerKey(_, _)
\* the maps that hold, for every key, one of the values per[key]
OnePerKey(per, keys) ==
    IF keys = {}
    THEN {EmptyMap}
    ELSE LET k == CHOOSE x \in keys : TRUE
         IN  {(k :> v) @@ rest : v \in per[k], rest \in OnePerKey(per, keys \ {k})}

\* the maps convertTree(t, maxTags) can return
convertTree(tree, maxTags) ==
    LET inverted == convertTreeRecursive(tree, << >>,
                        [tag \in DOMAIN tree.nodes[<< >>].tagFreqs |-> FZero])
    IN  OnePerKey([p \in DOMAIN inverted |-> bestNLogSpace(inverted[p], maxTags)],
                  DOMAIN inverted)

\* the handlers NewLookupSuffixHandler(sh) can return
NewLookupSuffixHandler(sh) ==
    {[kind |-> "LookupSuffixHandler", probs |-> m, maxLength |-> sh.trees["lower"].maxLength] :
        m \in OnePerKey([c \in Classes |-> convertTree(sh.trees[c], sh.maxTags)], Classes)}
RECURSIVE LookupShortenNoRoot(_, _)
\* the loop without the final m[string(runes)] of the empty suffix
LookupShortenNoRoot(m, runes) ==
    IF Len(runes) > 0
    THEN IF runes \in DOMAIN m
         THEN m[runes]
         ELSE LookupShortenNoRoot(m, SubSeq(runes, 1, Len(runes) - 1))
    ELSE EmptyMap

RECURSIVE LookupShorten(_, _)
\* the loop of LookupSuffixHandler.TagProbs and its final m[string(runes)]
LookupShorten(m, runes) ==
    IF Len(runes) > 0
    THEN IF runes \in DOMAIN m
         THEN m[runes]
         ELSE LookupShorten(m, SubSeq(runes, 1, Len(runes) - 1))
    ELSE IF runes \in DOMAIN m THEN m[runes] ELSE EmptyMap

\* LookupSuffixHandler.TagProbs(word); the word is not empty
LookupSuffixHandlerTagProbs(h, word) ==
    LookupShorten(h.probs[selectMap(word)], RevTrunc(word, h.maxLength))

(***************************************************************************)
(* TagProbs of the word handlers.  An outcome is [panic, probs, consulted]:*)
(* whether the call panicked, the map it returned, and the sources it      *)
(* looked at, in order.                                                    *)
(***************************************************************************)
TagProbsReturned(probs, consulted) ==
    [panic |-> FALSE, probs |-> probs, consulted |-> consulted]

TagProbsPanicked(consulted) == [panic |-> TRUE, probs |-> EmptyMap, consulted |-> consulted]

\* the name of a source of the lexicon inside a SubstLexicon, asked about
\* the substituted word
SubstSource(s) ==
    IF s = "exact" THEN "subst-exact"
    ELSE IF s = "lower" THEN "subst-lower"
    ELSE "subst-fallback"

\* the fallback of a SubstLexicon is asked about the substituted word
FallbackArgumentSubstWord(word, substWord) == substWord

\* l.fallback.TagProbs(word): the fallback of a SubstLexicon is asked about
\* the word itself
FallbackArgument(word, substWord) == word

RECURSIVE TagProbsOutcomes(_, _)
\* the outcomes h.TagProbs(word) can have, for every kind of WordHandler
TagProbsOutcomes(h, word) ==
    IF h.kind = "fixed" THEN {TagProbsReturned(HandlerTagProbs(h, word), <<"fixed">>)}
    ELSE IF h.kind = "SuffixHandler"
    THEN IF Len(word) = 0
         THEN {TagProbsPanicked(<<"suffix">>)}
         ELSE {TagProbsReturned(m, <<"suffix">>) : m \in SuffixHandlerTagProbs(h, word)}
    ELSE IF h.kind = "LookupSuffixHandler"
    THEN IF Len(word) = 0
         THEN {TagProbsPanicked(<<"lookup">>)}
         ELSE {TagProbsReturned(LookupSuffixHandlerTagProbs(h, word), <<"lookup">>)}
    ELSE IF h.kind = "Lexicon"
    THEN IF word \in DOMAIN h.wordTagProbs
         THEN {TagProbsReturned(h.wordTagProbs[word], <<"exact">>)}
         ELSE IF LexiconPanics(h, word)
         THEN {TagProbsPanicked(<<"exact">>)}
         ELSE LET seen == IF IsUpper(word[1]) THEN <<"exact", "lower">> ELSE <<"exact">>
              IN  IF IsUpper(word[1]) /\ ToLower(word) \in DOMAIN h.wordTagProbs
                  THEN {TagProbsReturned(h.wordTagProbs[ToLower(word)], seen)}
                  ELSE IF h.fallback # NoHandler
                  THEN {[o EXCEPT !.consulted = seen \o <<"fallback">>] :
                           o \in TagProbsOutcomes(h.fallback, word)}
                  ELSE {TagProbsReturned(EmptyMap, seen)}
    ELSE \* SubstLexicon
         UNION {
            IF first.panic \/ DOMAIN first.probs # {}
            THEN {first}
            ELSE LET substWord == ApplySubstitutions(h.substitutions, word)
                 IN  UNION {
                        LET seen == first.consulted
                                    \o [k \in DOMAIN second.consulted |->
                                           SubstSource(second.consulted[k])]
                        IN  IF second.panic \/ DOMAIN second.probs # {}
                            THEN {[second EXCEPT !.consulted = seen]}
                            ELSE IF h.fallback # NoHandler
                            THEN {[o EXCEPT !.consulted = seen \o <<"fallback">>] :
                                     o \in TagProbsOutcomes(h.fallback,
                                               FallbackArgument(word, substWord))}
                            ELSE {[second EXCEPT !.consulted = seen]} :
                        second \in TagProbsOutcomes(h.lexicon, substWord)} :
            first \in TagProbsOutcomes(h.lexicon, word)}

(***************************************************************************)
(* Inputs of the word handlers.                                            *)
(***************************************************************************)
SuffixHandlerConfigs ==
    {DefaultSuffixHandlerConfig,
     [DefaultSuffixHandlerConfig EXCEPT !.MaxTags = 1],
     [DefaultSuffixHandlerConfig EXCEPT !.MaxTags = 0],
     [DefaultSuffixHandlerConfig EXCEPT !.MaxSuffixLen = 1, !.LowerMaxFreq = 1,
                                        !.MaxTags = 2]}

Substitutions == <<Substitution("z", <<"d">>), Substitution("b", <<"a">>)>>

WordZog == <<"z","o","g">>
WordCbn == <<"C","b","n">>
WordCardinal == <<"1","a">>
WordZbn == <<"z","b","n">>
WordDash == <<"a","-","b">>

QueryWords ==
    {<< >>, WordDog, WordCapCan, WordUnknown, WordZog, WordCbn, WordZbn, WordCardinal,
     WordDash}

HandlerNames ==
    {"Lexicon", "LexiconWithSuffixHandler", "LexiconWithLookup", "SubstLexicon",
     "SubstLexiconWithLookup", "SuffixHandler", "LookupSuffixHandler"}

\* the word handler of each name, as the commands construct them
HandlerOf(w, name) ==
    IF name = "Lexicon" THEN w.lexicon
    ELSE IF name = "LexiconWithSuffixHandler" THEN [w.lexicon EXCEPT !.fallback = w.sh]
    ELSE IF name = "LexiconWithLookup" THEN [w.lexicon EXCEPT !.fallback = w.lookup]
    ELSE IF name = "SubstLexicon" THEN NewSubstLexicon(w.lexicon, Substitutions)
    ELSE IF name = "SubstLexiconWithLookup"
    THEN NewSubstLexiconWithFallback(w.lexicon, w.lookup, Substitutions)
    ELSE IF name = "SuffixHandler" THEN w.sh
    ELSE w.lookup

NoHandlers == [built |-> FALSE]
NoCall == [asked |-> FALSE]

(***************************************************************************)
(* StringNumberer.Number and StringNumberer.Read (model/) called on one    *)
(* numberer.  A file is the sequence of its lines; call holds the last     *)
(* call: [asked, op, label or file, before, result].                       *)
(***************************************************************************)
RECURSIVE TrimSpace(_)
\* strings.TrimSpace
TrimSpace(line) ==
    IF line = << >> THEN line
    ELSE IF Head(line) = " " THEN TrimSpace(Tail(line))
    ELSE IF line[Len(line)] = " " THEN TrimSpace(SubSeq(line, 1, Len(line) - 1))
    ELSE line

RECURSIVE ReadLabels(_)
\* the loop of Read over the lines: the trimmed lines that are not empty
ReadLabels(file) ==
    IF file = << >> THEN << >>
    ELSE LET line == TrimSpace(Head(file))
         IN  (IF line = << >> THEN << >> ELSE <<line>>) \o ReadLabels(Tail(file))

\* for idx, label := range labels { numbers[label] = uint(idx) }
ReadNumbers(labels) ==
    [label \in {labels[k] : k \in DOMAIN labels} |->
        (CHOOSE k \in DOMAIN labels :
            labels[k] = label /\ \A j \in DOMAIN labels : labels[j] = label => j <= k) - 1]

\* the numberer after Read of a file without read error
AfterRead(file) ==
    LET labels == ReadLabels(file)
    IN  [labelNumbers |-> ReadNumbers(labels), labels |-> labels]

NumbererLabels == {NounLabel, VerbLabel, StartToken}

FileLines == {NounLabel, VerbLabel, <<" ">> \o NounLabel, << >>}

Files == UNION {[1 .. n -> FileLines] : n \in 0 .. MaxLen}

InitNumberer ==
    /\ numberer = NewStringStringNumberer
    /\ lexicon = [wordTagProbs |-> WordTagProbsOf(0 - 1), fallback |-> NoHandler]
    /\ lim = NoModel
    /\ sentence = << >>
    /\ beamFactor = 0
    /\ factor = 1
    /\ tokens = << >>
    /\ i = 0
    /\ heap = << >>
    /\ beam = 0
    /\ pruned = FALSE
    /\ lastColumn = EmptyMap
    /\ result = NoResult
    /\ pc = "new"
    /\ panicMsg = ""
    /\ prevRun = NoRun
    /\ TrainInit

NumbererUnchanged ==
    UNCHANGED <<lexicon, lim, beamFactor, factor, sentence, tokens, i, heap, beam,
                pruned, lastColumn, result, pc, panicMsg, prevRun, fc, nProcessed,
                nTokens, tm, query, wh, sess>>

\* l.Number(label)
CallNumber ==
    /\ \E label \in NumbererLabels :
          /\ call' = [asked |-> TRUE, op |-> "Number", label |-> label,
                      before |-> numberer, result |-> NumberOf(numberer, label)]
          /\ numberer' = AfterNumber(numberer, label)
    /\ NumbererUnchanged

\* l.Read(reader) on a reader that gives the lines of a file
CallRead ==
    /\ \E file \in Files :
          /\ call' = [asked |-> TRUE, op |-> "Read", file |-> file, before |-> numberer]
          /\ numberer' = AfterRead(file)
    /\ NumbererUnchanged

NextNumberer == CallNumber \/ CallRead

SpecNumberer == InitNumberer /\ [][NextNumberer]_vars

(***************************************************************************)
(* Concurrent decoding sessions on one HMMTagger.  The sessions share the  *)
(* model's tag numberer, the word handler and the trigram model; each has  *)
(* its own tokens and trellis.  StringNumberer.Number is two steps, the    *)
(* lookup in labelNumbers and, for an absent label, the insertion.         *)
(***************************************************************************)
\* idx = uint(len(l.labelNumbers)); l.labelNumbers[label] = idx;
\* l.labels = append(l.labels, label)
NumberInsert(nb, label) ==
    LET idx == Cardinality(DOMAIN nb.labelNumbers)
    IN  [labelNumbers |-> [l \in DOMAIN nb.labelNumbers \cup {label} |->
                              IF l = label THEN idx ELSE nb.labelNumbers[l]],
         labels |-> Append(nb.labels, label)]

\* the two initial states of viterbi for a start tag
InitialHeap(startTag) ==
    <<(startTag :> EmptyMap), (startTag :> (startTag :> Backpointer(NilState, 0)))>>

\* what one iteration of viterbi's loop can do: panic, or build a column and
\* set the beam
ViterbiOutcomes(lex, m, bf, word, trellis, bm) ==
    IF LexiconPanics(lex, word)
    THEN {[panic |-> TRUE, column |-> EmptyMap, beam |-> 0]}
    ELSE LET tagProbs == LexiconTagProbs(lex, word)
         IN  IF NoTagProbs(tagProbs) \/ TrigramPanics(m, trellis, bm, tagProbs)
             THEN {[panic |-> TRUE, column |-> EmptyMap, beam |-> 0]}
             ELSE {[panic |-> FALSE, column |-> c,
                    beam |-> Sub(ColumnHighestProb(c), bf)] :
                      c \in NextColumns(m, trellis, bm, tagProbs)}

\* what Trellis.Tags() can do on a finished trellis: panic, or return the
\* labels of a best sequence
TagsOutcomes(nb, h) ==
    LET col == h[Len(h)]
    IN  IF Finals(col) = {}
        THEN {[panic |-> TRUE, result |-> NoResult]}
        ELSE {LET tagNumbers == Reverse(TraceBack(h, Len(h) - 1, f[1], f[2]))
              IN  IF \E k \in 3 .. Len(tagNumbers) - 1 : ~LabelInRange(nb, tagNumbers[k])
                  THEN [panic |-> TRUE, result |-> NoResult]
                  ELSE [panic |-> FALSE,
                        result |-> [returned |-> TRUE,
                                    tagNumbers |-> tagNumbers,
                                    tags |-> TagsOf(nb, tagNumbers),
                                    prob |-> BPLookup(col[f[1]], f[2]).prob]] :
                 f \in Finals(col)}

\* the models, word handlers and sentences of the concurrent sessions: a
\* trained model, and the model of a collector that processed no sentence,
\* whose numberer is empty and whose lexicon has no word
UntrainedLexicons ==
    {[wordTagProbs |-> EmptyMap, fallback |-> f] : f \in {NoHandler, FixedHandler}}

ConcurrentTrigramModels ==
    {m \in TrigramModels :
        /\ m.unigramProbs[TagS] # NegInf
        /\ m.bigramProbs[<<TagS, TagV>>] = 0 - 1
        /\ m.bigramProbs[<<TagN, TagE>>] = 0 - 1}

ConcurrentSentences == {<< >>, <<WordDog>>, <<WordCapCan>>}

(***************************************************************************)
(* Inputs of training and of TrigramProb.                                  *)
(***************************************************************************)
TokDog == Token(WordDog, NounLabel)
TokCan == Token(WordCan, VerbLabel)
TokCapCan == Token(WordCapCan, NounLabel)
TokDogVerb == Token(WordDog, VerbLabel)

TrainSentences ==
    {<< >>, <<TokDog>>, <<TokDogVerb>>, <<TokCan, TokDog>>, <<TokCapCan, TokCan>>,
     <<TokDog, TokCan, TokDog>>}

\* the tags TrigramProb is asked about: those of every number a collector
\* can have given out and of one it cannot, and a capitalised one
QueryTags ==
    {MkTag(n, FALSE) : n \in 0 .. Len(TrainedNumberer.labels)} \cup {MkTag(1, TRUE)}

QueryTrigrams == QueryTags \X QueryTags \X QueryTags

(***************************************************************************)
(* The decoder's actions.                                                  *)
(***************************************************************************)
Init ==
    /\ numberer = TrainedNumberer
    /\ lexicon \in Lexicons
    /\ lim \in TrigramModels
    /\ sentence \in Sentences
    /\ beamFactor = 0
    /\ factor = 1
    /\ tokens = << >>
    /\ i = 0
    /\ heap = << >>
    /\ beam = 0
    /\ pruned = FALSE
    /\ lastColumn = EmptyMap
    /\ result = NoResult
    /\ pc = "new"
    /\ panicMsg = ""
    /\ prevRun = NoRun
    /\ TrainInit

\* NewHMMTagger(model, wordHandler, trigramModel, beamFactor)
NewHMMTagger ==
    /\ pc = "new"
    /\ \E b \in BeamFactors :
        /\ factor' = b
        /\ beamFactor' = Log2(b)
    /\ pc' = "idle"
    /\ UNCHANGED <<numberer, lexicon, lim, sentence, tokens, i, heap, beam, pruned,
                   lastColumn, result, panicMsg, prevRun, trainVars>>

\* Tag(sentence) up to the loop of viterbi: the padded tokens and the two
\* initial states, state2.backpointers[state1] = backpointer{nil, 0.0}
Tag ==
    /\ pc = "idle"
    /\ LET toks == <<StartToken, StartToken>> \o sentence \o <<EndToken>>
           startTag == MkTag(NumberOf(numberer, toks[1]), FALSE)
       IN  /\ tokens' = toks
           /\ numberer' = AfterNumber(numberer, toks[1])
           /\ heap' = <<(startTag :> EmptyMap),
                        (startTag :> (startTag :> Backpointer(NilState, 0)))>>
    /\ i' = 2
    /\ beam' = 0
    /\ pruned' = FALSE
    /\ pc' = "viterbi"
    /\ UNCHANGED <<lexicon, lim, beamFactor, factor, sentence, lastColumn, result,
                   panicMsg, prevRun, trainVars>>

Panic(msg) ==
    /\ pc' = "panic"
    /\ panicMsg' = msg
    /\ UNCHANGED <<numberer, lexicon, lim, beamFactor, factor, sentence, tokens, i,
                   heap, beam, pruned, lastColumn, result, prevRun, trainVars>>

\* one iteration of "for i := 2; i < len(sentence); i++", and the return of
\* the trellis after the last one
ViterbiStep ==
    /\ pc = "viterbi"
    /\ LET word == tokens[i + 1]
           trellis == heap[Len(heap)]
       IN  IF LexiconPanics(lexicon, word)
           THEN Panic("index out of range")
           ELSE LET tagProbs == LexiconTagProbs(lexicon, word)
                IN  IF NoTagProbs(tagProbs)
                    THEN Panic("No tag probabilities")
                    ELSE IF TrigramPanics(lim, trellis, beam, tagProbs)
                    THEN Panic("Unknown tag")
                    ELSE \E c \in NextColumns(lim, trellis, beam, tagProbs) :
                            /\ heap' = Append(heap, c)
                            /\ beam' = Sub(ColumnHighestProb(c), beamFactor)
                            /\ pruned' = (pruned \/ Skipped(trellis, beam))
                            /\ i' = i + 1
                            /\ pc' = IF i + 1 < Len(tokens) THEN "viterbi" ELSE "tagged"
                            /\ lastColumn' = IF i + 1 < Len(tokens) THEN lastColumn ELSE c
                            /\ UNCHANGED <<numberer, lexicon, lim, beamFactor, factor,
                                           sentence, tokens, result, panicMsg, prevRun,
                                           trainVars>>

\* Trellis.Tags(): highestProbabilitySequence and the labels of its tags
Tags ==
    /\ pc = "tagged"
    /\ IF Finals(lastColumn) = {}
       THEN Panic("nil tail while extracting highest probability sequence")
       ELSE \E f \in Finals(lastColumn) :
              LET tagNumbers == Reverse(TraceBack(heap, Len(heap) - 1, f[1], f[2]))
              IN  IF \E k \in 3 .. Len(tagNumbers) - 1 : ~LabelInRange(numberer, tagNumbers[k])
                  THEN Panic("index out of range")
                  ELSE /\ result' = [returned |-> TRUE,
                                     tagNumbers |-> tagNumbers,
                                     tags |-> TagsOf(numberer, tagNumbers),
                                     prob |-> BPLookup(lastColumn[f[1]], f[2]).prob]
                       /\ pc' = "done"
                       /\ UNCHANGED <<numberer, lexicon, lim, beamFactor, factor, sentence,
                                      tokens, i, heap, beam, pruned, lastColumn, panicMsg,
                                      prevRun, trainVars>>

\* the caller keeps what Tags() returned and decodes the same sentence again,
\* with a tagger built by another call of NewHMMTagger
NextRun ==
    /\ pc = "done"
    /\ prevRun' = [ran |-> TRUE, factor |-> factor, tags |-> result.tags,
                   prob |-> result.prob, pruned |-> pruned]
    /\ result' = NoResult
    /\ lastColumn' = EmptyMap
    /\ pc' = "new"
    /\ UNCHANGED <<numberer, lexicon, lim, beamFactor, factor, sentence, tokens, i,
                   heap, beam, pruned, panicMsg, trainVars>>

Next == NewHMMTagger \/ Tag \/ ViterbiStep \/ Tags \/ NextRun

Spec == Init /\ [][Next]_vars

\* NewHMMTagger with the beam factor 1/2: math.Log(0.5) = -math.Log(2)
NewHMMTaggerBelowOne ==
    /\ pc = "new"
    /\ factor' = FDiv(1, 2)
    /\ beamFactor' = 0 - Log2(2)
    /\ pc' = "idle"
    /\ UNCHANGED <<numberer, lexicon, lim, sentence, tokens, i, heap, beam, pruned,
                   lastColumn, result, panicMsg, prevRun, trainVars>>

NextBelowOne == NewHMMTaggerBelowOne \/ Next

\* the decoder, with taggers of a beam factor below 1 as well
SpecBelowOne == Init /\ [][NextBelowOne]_vars

(***************************************************************************)
(* Training and the transition model.                                      *)
(***************************************************************************)
InitTrigram ==
    /\ numberer = TrainedNumberer
    /\ lexicon = [wordTagProbs |-> WordTagProbsOf(0 - 1), fallback |-> NoHandler]
    /\ lim = NoModel
    /\ sentence = << >>
    /\ beamFactor = 0
    /\ factor = 1
    /\ tokens = << >>
    /\ i = 0
    /\ heap = << >>
    /\ beam = 0
    /\ pruned = FALSE
    /\ lastColumn = EmptyMap
    /\ result = NoResult
    /\ pc = "new"
    /\ panicMsg = ""
    /\ prevRun = NoRun
    /\ TrainInit

\* FrequencyCollector.Process(sentence)
Process ==
    /\ ~tm.built
    /\ ~wh.built
    /\ nProcessed < MaxSentences
    /\ \E s \in TrainSentences : fc' = Processed(fc, s) /\ nTokens' = nTokens + Len(s)
    /\ nProcessed' = nProcessed + 1
    /\ UNCHANGED <<tm, query, wh, call, sess, decoderVars>>

\* NewLinearInterpolationModel(collector.Model())
NewLinearInterpolationModel ==
    /\ ~tm.built
    /\ tm' = LinearInterpolationModelOf(fc)
    /\ UNCHANGED <<fc, nProcessed, nTokens, query, wh, call, sess, decoderVars>>

\* a call of TrigramProb on the model built; the model never changes, so
\* one call in a behaviour reaches every state that more calls would
CallTrigramProb ==
    /\ tm.built
    /\ ~query.asked
    /\ \E t \in QueryTrigrams :
          query' = [asked |-> TRUE, trigram |-> t, result |-> TrigramProb(tm, t)]
    /\ UNCHANGED <<fc, nProcessed, nTokens, tm, wh, call, sess, decoderVars>>

NextTrigram == Process \/ NewLinearInterpolationModel \/ CallTrigramProb

SpecTrigram == InitTrigram /\ [][NextTrigram]_vars

(***************************************************************************)
(* The word handlers: training, construction and TagProbs.                 *)
(***************************************************************************)
\* NewLexicon, NewSuffixHandler and NewLookupSuffixHandler on the model of
\* the collector, which shares its tag numberer with the model
NewWordHandlers ==
    /\ ~wh.built
    /\ ~tm.built
    /\ \E config \in SuffixHandlerConfigs :
          LET sh == NewSuffixHandler(config, fc)
          IN  \E lookup \in NewLookupSuffixHandler(sh) :
                 wh' = [built |-> TRUE,
                        config |-> config,
                        lexicon |-> NewLexicon(fc.lexicon, fc.unigrams),
                        sh |-> sh,
                        lookup |-> lookup]
    /\ fc' = [fc EXCEPT !.numberer = NumbererAfterNewSuffixHandler(@)]
    /\ UNCHANGED <<nProcessed, nTokens, tm, query, call, sess, decoderVars>>

\* one TagProbs call on one of the handlers; the handlers never change, so
\* one call in a behaviour reaches every state that more calls would
CallTagProbs ==
    /\ wh.built
    /\ ~call.asked
    /\ \E name \in HandlerNames, word \in QueryWords :
          \E o \in TagProbsOutcomes(HandlerOf(wh, name), word) :
             call' = [asked |-> TRUE, handler |-> name, word |-> word, outcome |-> o]
    /\ UNCHANGED <<fc, nProcessed, nTokens, tm, query, wh, sess, decoderVars>>

NextWords == Process \/ NewWordHandlers \/ CallTagProbs

SpecWords == InitTrigram /\ [][NextWords]_vars

\* training sentences in which a word carries the tag of a marker
TokDogEnd == Token(WordDog, EndToken)
TokCapCanStart == Token(WordCapCan, StartToken)

MarkedSentences == {<<TokDog>>, <<TokDogEnd>>, <<TokCapCanStart, TokDog>>}

\* FrequencyCollector.Process(sentence) on one of these sentences
ProcessMarked ==
    /\ ~tm.built
    /\ ~wh.built
    /\ nProcessed < MaxSentences
    /\ \E s \in MarkedSentences : fc' = Processed(fc, s) /\ nTokens' = nTokens + Len(s)
    /\ nProcessed' = nProcessed + 1
    /\ UNCHANGED <<tm, query, wh, call, sess, decoderVars>>

NextMarked == ProcessMarked \/ NewWordHandlers \/ CallTagProbs

\* the word handlers of collectors that processed such sentences
SpecMarked == InitTrigram /\ [][NextMarked]_vars

(***************************************************************************)
(* Concurrent sessions: the actions.                                       *)
(***************************************************************************)
InitConcurrent ==
    /\ \E trained \in BOOLEAN :
          /\ numberer = IF trained THEN TrainedNumberer ELSE NewStringStringNumberer
          /\ lexicon \in IF trained THEN Lexicons ELSE UntrainedLexicons
    /\ lim \in ConcurrentTrigramModels
    /\ \E b \in BeamFactors : factor = b /\ beamFactor = Log2(b)
    /\ sentence = << >>
    /\ tokens = << >>
    /\ i = 0
    /\ heap = << >>
    /\ beam = 0
    /\ pruned = FALSE
    /\ lastColumn = EmptyMap
    /\ result = NoResult
    /\ pc = "idle"
    /\ panicMsg = ""
    /\ prevRun = NoRun
    /\ TrainInit

\* what no session writes: the tagger's fields other than the numberer, and
\* the state of the other specifications
SessionUnchanged ==
    UNCHANGED <<lexicon, lim, beamFactor, factor, sentence, tokens, i, heap, beam,
                pruned, lastColumn, result, pc, panicMsg, prevRun, fc, nProcessed, nTokens, tm,
                query, wh, call>>

\* Tag(sentence) up to the call of viterbi
SessionTag(s) ==
    /\ sess[s].pc = "idle"
    /\ \E snt \in ConcurrentSentences :
          sess' = [sess EXCEPT ![s] =
                      [@ EXCEPT !.pc = "number", !.sentence = snt, !.start = numberer,
                                !.tokens = <<StartToken, StartToken>> \o snt
                                           \o <<EndToken>>]]
    /\ UNCHANGED numberer
    /\ SessionUnchanged

\* Number(sentence[0]): idx, ok := l.labelNumbers[label]
SessionNumber(s) ==
    /\ sess[s].pc = "number"
    /\ sess' = [sess EXCEPT ![s] =
                   IF StartToken \in DOMAIN numberer.labelNumbers
                   THEN [@ EXCEPT !.pc = "viterbi", !.i = 2,
                            !.heap = InitialHeap(MkTag(numberer.labelNumbers[StartToken],
                                                       FALSE))]
                   ELSE [@ EXCEPT !.pc = "insert"]]
    /\ UNCHANGED numberer
    /\ SessionUnchanged

\* Number(sentence[0]): the body of "if !ok"
SessionInsert(s) ==
    /\ sess[s].pc = "insert"
    /\ numberer' = NumberInsert(numberer, StartToken)
    /\ sess' = [sess EXCEPT ![s] =
                   [@ EXCEPT !.pc = "viterbi", !.i = 2,
                             !.heap = InitialHeap(MkTag(Cardinality(DOMAIN
                                                     numberer.labelNumbers), FALSE))]]
    /\ SessionUnchanged

\* two goroutines that write one map at the same time: the Go runtime may
\* stop the program with "fatal error: concurrent map writes"
ConcurrentMapWrites ==
    /\ \E s, t \in Sessions : s # t /\ sess[s].pc = "insert" /\ sess[t].pc = "insert"
    /\ sess' = [s \in Sessions |-> [sess[s] EXCEPT !.pc = "fatal"]]
    /\ UNCHANGED numberer
    /\ SessionUnchanged

\* one iteration of viterbi's loop in a session
SessionViterbiStep(s) ==
    /\ sess[s].pc = "viterbi"
    /\ \E o \in ViterbiOutcomes(lexicon, lim, beamFactor, sess[s].tokens[sess[s].i + 1],
                                sess[s].heap[Len(sess[s].heap)], sess[s].beam) :
          sess' = [sess EXCEPT ![s] =
                      IF o.panic
                      THEN [@ EXCEPT !.pc = "panic"]
                      ELSE [@ EXCEPT !.heap = Append(@, o.column),
                                     !.beam = o.beam,
                                     !.i = @ + 1,
                                     !.pc = IF sess[s].i + 1 < Len(sess[s].tokens)
                                            THEN "viterbi" ELSE "tagged"]]
    /\ UNCHANGED numberer
    /\ SessionUnchanged

\* Trellis.Tags() in a session
SessionTags(s) ==
    /\ sess[s].pc = "tagged"
    /\ \E o \in TagsOutcomes(numberer, sess[s].heap) :
          sess' = [sess EXCEPT ![s] =
                      IF o.panic
                      THEN [@ EXCEPT !.pc = "panic"]
                      ELSE [@ EXCEPT !.pc = "done", !.result = o.result]]
    /\ UNCHANGED numberer
    /\ SessionUnchanged

NextConcurrent ==
    \/ \E s \in Sessions :
          \/ SessionTag(s)
          \/ SessionNumber(s)
          \/ SessionInsert(s)
          \/ SessionViterbiStep(s)
          \/ SessionTags(s)
    \/ ConcurrentMapWrites

SpecConcurrent == InitConcurrent /\ [][NextConcurrent]_vars

(***************************************************************************)
(* What the claims about the decoder are stated with.                      *)
(***************************************************************************)
\* the candidates of the token at (1-based) place k of the padded sentence
PaddedSentence == <<StartToken, StartToken>> \o sentence \o <<EndToken>>
CandidatesAt(k) == LexiconTagProbs(lexicon, PaddedSentence[k])
StartTag == MkTag(NumberOf(numberer, StartToken), FALSE)

RECURSIVE ScoredPaths(_)
\* every tag sequence an exhaustive search ranges over, up to place k, with
\* the sum of its transition and emission log-scores: the two start states,
\* then one candidate of each token and of the end marker
ScoredPaths(k) ==
    IF k <= 2
    THEN {[path |-> <<StartTag, StartTag>>, prob |-> 0]}
    ELSE LET c == CandidatesAt(k)
         IN  {[path |-> Append(sp.path, t),
               prob |-> Add(sp.prob,
                            Add(TrigramProb(lim, <<sp.path[k - 2], sp.path[k - 1], t>>).p,
                                c[t]))] :
                 sp \in ScoredPaths(k - 1), t \in DOMAIN c}

CandidatePaths == ScoredPaths(Len(sentence) + 3)

ExhaustiveProbOf(paths) == SetMax({sp.prob : sp \in paths} \cup {NegInf})

ReturnedIsExhaustive ==
    LET paths == CandidatePaths
        best == ExhaustiveProbOf(paths)
    IN  /\ result.prob = best
        /\ \E sp \in paths :
              /\ sp.prob = best
              /\ result.tagNumbers = [k \in 1 .. Len(sp.path) |-> sp.path[k].Tag]

\* C1: whenever Tags() returns for a sentence of N tokens, the traceback has
\* collected N + 3 tags, one state of each position from the two start states
\* to the end marker, and the N tags returned are the labels of the states of
\* the positions of the N tokens, each a candidate of its token.
C1_OneTagPerToken ==
    pc = "done" =>
        /\ Len(result.tagNumbers) = Len(sentence) + 3
        /\ Len(result.tags) = Len(sentence)
        /\ \A p \in 1 .. Len(result.tagNumbers) :
              \E t \in DOMAIN heap[p] : t.Tag = result.tagNumbers[p]
        /\ result.tagNumbers[1] = StartTag.Tag /\ result.tagNumbers[2] = StartTag.Tag
        /\ \A k \in 1 .. Len(sentence) :
              /\ result.tags[k] = Label(numberer, result.tagNumbers[k + 2])
              /\ \E t \in DOMAIN CandidatesAt(k + 2) : t.Tag = result.tagNumbers[k + 2]

C1_Witness ==
    pc = "done" /\ Len(sentence) = 2 /\ pruned
    /\ Cardinality(DOMAIN CandidatesAt(3)) = 2 /\ Cardinality(DOMAIN CandidatesAt(4)) = 2

\* C2: no tag returned by Tags() is the start marker or the end marker.
C2_NoMarkerTag ==
    pc = "done" => \A k \in 1 .. Len(result.tags) : result.tags[k] \notin {StartToken, EndToken}

\* C3 (as stated): with beamFactor = 1 the result of Tags() is that of an
\* exhaustive search: the highest score of any candidate sequence, and a
\* sequence that has it.
C3_BeamOneIsExhaustive ==
    (pc = "done" /\ factor = 1) => ReturnedIsExhaustive

\* C3 (amended): the score Tags() returns never exceeds that of an exhaustive
\* search, and whenever viterbi skipped no pair the result is that of an
\* exhaustive search: its highest score and a sequence that has it.
C3_UnprunedIsExhaustive ==
    pc = "done" =>
        IF pruned THEN result.prob <= ExhaustiveProbOf(CandidatePaths) ELSE ReturnedIsExhaustive

C3_Witness ==
    /\ pc = "done" /\ ~pruned /\ Len(sentence) = 2
    /\ Cardinality({sp.prob : sp \in CandidatePaths}) > 2

\* C4 (as stated): of two runs on the same model and sentence, the one with
\* the larger beam factor never returns the greater score.
C4_LargerBeamNeverGreater ==
    (pc = "done" /\ prevRun.ran) =>
        /\ prevRun.factor < factor => result.prob <= prevRun.prob
        /\ factor < prevRun.factor => prevRun.prob <= result.prob

\* C4 (amended): of two runs on the same model and sentence, one in which
\* viterbi skipped no pair never returns the smaller score.
C4_UnprunedNeverSmaller ==
    (pc = "done" /\ prevRun.ran) =>
        /\ ~pruned => prevRun.prob <= result.prob
        /\ ~prevRun.pruned => result.prob <= prevRun.prob

C4_Witness ==
    /\ pc = "done" /\ prevRun.ran /\ prevRun.factor < factor
    /\ prevRun.pruned /\ ~pruned /\ prevRun.prob < result.prob

\* C5: two runs with the same model, sentence and beam factor return the same
\* tags and the same score.
C5_SameResultTwice ==
    (pc = "done" /\ prevRun.ran /\ prevRun.factor = factor) =>
        /\ result.tags = prevRun.tags
        /\ result.prob = prevRun.prob

AllScoresFinite ==
    /\ \A k \in DOMAIN lim.unigramProbs : IsFinite(lim.unigramProbs[k])
    /\ \A k \in DOMAIN lim.bigramProbs : IsFinite(lim.bigramProbs[k])
    /\ \A k \in DOMAIN lim.trigramProbs : IsFinite(lim.trigramProbs[k])
    /\ \A k \in 3 .. Len(PaddedSentence) :
          \A t \in DOMAIN CandidatesAt(k) : IsFinite(CandidatesAt(k)[t])

SingleCandidates ==
    \A k \in 3 .. Len(PaddedSentence) : Cardinality(DOMAIN CandidatesAt(k)) = 1

\* C6: when every token and the end marker have exactly one candidate tag and
\* all scores are finite, decoding does not panic and Tags() returns the
\* label of the one candidate of each token, whatever the beam factor and
\* the transition scores.
C6_SingleCandidateSequence ==
    (SingleCandidates /\ AllScoresFinite) =>
        /\ pc # "panic"
        /\ pc = "done" =>
              /\ Len(result.tags) = Len(sentence)
              /\ \A k \in 1 .. Len(sentence) :
                    \A t \in DOMAIN CandidatesAt(k + 2) :
                        result.tags[k] = Label(numberer, t.Tag)

C6_Witness ==
    /\ pc = "done" /\ SingleCandidates /\ AllScoresFinite
    /\ sentence = <<WordDog, WordDog>> /\ factor = 2

\* C7: viterbi gets past a token only if its candidates are not empty, and a
\* sentence with a token (or end marker) without candidates ends in the panic
\* "No tag probabilities" at the first such token, with no trellis and no
\* tags returned.
C7_EmptyEmissionPanics ==
    LET empty(k) == DOMAIN CandidatesAt(k) = {}
    IN  /\ pc \in {"viterbi", "tagged", "done"} => \A k \in 3 .. i : ~empty(k)
        /\ (pc = "panic" /\ \E k \in 3 .. Len(tokens) : empty(k)) =>
              /\ panicMsg = "No tag probabilities"
              /\ empty(i + 1)
              /\ \A k \in 3 .. i : ~empty(k)
              /\ ~result.returned
              /\ lastColumn = EmptyMap

C7_Witness ==
    /\ pc = "panic" /\ panicMsg = "No tag probabilities"
    /\ i = 3 /\ Len(sentence) = 2 /\ prevRun = NoRun

\* C8: TrigramProb returns the stored value of the trigram if the trigram
\* was observed, else that of the bigram (t2, t3) if it was observed, else
\* that of the unigram t3; for an unobserved trigram with an observed bigram
\* (t2, t3) the result is the bigram's value whatever t1 is.
C8_BackOffOrder ==
    query.asked =>
        LET t == query.trigram
            t2t3 == <<t[2], t[3]>>
        IN  /\ t \in DOMAIN fc.trigrams =>
                  query.result = Returned(tm.trigramProbs[t])
            /\ (t \notin DOMAIN fc.trigrams /\ t2t3 \in DOMAIN fc.bigrams) =>
                  /\ query.result = Returned(tm.bigramProbs[t2t3])
                  /\ \A t1 \in QueryTags :
                        <<t1, t[2], t[3]>> \notin DOMAIN fc.trigrams =>
                            TrigramProb(tm, <<t1, t[2], t[3]>>) = query.result
            /\ (t \notin DOMAIN fc.trigrams /\ t2t3 \notin DOMAIN fc.bigrams
                    /\ t[3] \in DOMAIN fc.unigrams) =>
                  query.result = Returned(tm.unigramProbs[t[3]])

C8_Witness ==
    /\ query.asked
    /\ query.trigram \notin DOMAIN fc.trigrams
    /\ <<query.trigram[2], query.trigram[3]>> \in DOMAIN fc.bigrams
    /\ <<query.trigram[1], query.trigram[2]>> \in DOMAIN fc.bigrams
    /\ \E t \in DOMAIN fc.trigrams :
          /\ t[2] = query.trigram[2] /\ t[3] = query.trigram[3]
          /\ Returned(tm.trigramProbs[t]) # query.result

\* C9: TrigramProb panics, and returns no value, exactly when the third tag
\* of the trigram has no entry in the unigram table.
C9_PanicsIffNoUnigram ==
    query.asked =>
        IF query.trigram[3] \in DOMAIN tm.unigramProbs
        THEN ~query.result.panic
        ELSE query.result = Panicked

C9_Witness ==
    /\ query.asked
    /\ query.result = Panicked
    /\ DOMAIN tm.unigramProbs # {}
    /\ <<query.trigram[1], query.trigram[2]>> \in DOMAIN tm.bigramProbs

\* C10: the three weights calculateLambdas returns sum to 1, whatever the
\* frequency tables.
C10_LambdasSumToOne ==
    tm.built =>
        FAdd(FAdd(tm.smoothingParameters.L1, tm.smoothingParameters.L2),
             tm.smoothingParameters.L3) = FOne

\* the value a stored log-probability is the logarithm of
ProbOf(logp) == logp.logOf

\* C11 (as stated): the value calcTrigramProbs stores for a trigram observed
\* in training is strictly greater than 0 and strictly less than 1, so that
\* TrigramProb returns a finite, strictly negative log-probability for it.
C11_ObservedStrictlyBelowOne ==
    tm.built =>
        \A t \in DOMAIN fc.trigrams :
            LET x == ProbOf(tm.trigramProbs[t])
            IN  x.d > 0 /\ x.n > 0 /\ x.n < x.d

\* C11 (amended): the value stored for an observed trigram is greater than 0
\* and at most 1, so that TrigramProb returns for it a finite log-probability
\* that is never positive (and is 0 when the value is 1).
C11_ObservedInUnitInterval ==
    /\ tm.built =>
          \A t \in DOMAIN fc.trigrams :
              LET x == ProbOf(tm.trigramProbs[t])
              IN  x.d > 0 /\ x.n > 0 /\ x.n <= x.d
    /\ (query.asked /\ query.trigram \in DOMAIN fc.trigrams) =>
          /\ ~query.result.panic
          /\ LET x == ProbOf(query.result.p)
             IN  x.d > 0 /\ x.n > 0 /\ x.n <= x.d

C11_Witness ==
    /\ query.asked /\ query.trigram \in DOMAIN fc.trigrams
    /\ ProbOf(query.result.p) = FOne
    /\ \E t \in DOMAIN fc.trigrams :
          ProbOf(tm.trigramProbs[t]).n < ProbOf(tm.trigramProbs[t]).d
    /\ nProcessed = 2

(***************************************************************************)
(* Claims about the word handlers, checked under SpecWords.                *)
(***************************************************************************)
LexiconNames == {"Lexicon", "LexiconWithSuffixHandler", "LexiconWithLookup"}

\* C12: for a word of the word/tag frequency table, Lexicon.TagProbs returns
\* a map whose keys are exactly the tags the word was seen with, each with
\* the logarithm of count(word, tag) / count(tag), and the fallback is not
\* consulted.
C12_KnownWordProbs ==
    (call.asked /\ call.handler \in LexiconNames /\ call.word \in DOMAIN fc.lexicon)
    => /\ ~call.outcome.panic
       /\ DOMAIN call.outcome.probs = DOMAIN fc.lexicon[call.word]
       /\ \A tag \in DOMAIN call.outcome.probs :
             LET p == ProbOf(call.outcome.probs[tag])
             IN  /\ p.d > 0
                 /\ p.n * Freq(fc.unigrams, tag) = p.d * fc.lexicon[call.word][tag]
       /\ call.outcome.consulted = <<"exact">>

\* a lexicon with a fallback was asked about a word seen with two tags, one
\* of them with a probability below 1
C12_Witness ==
    /\ call.asked
    /\ call.handler = "LexiconWithLookup"
    /\ call.word = WordDog
    /\ call.word \in DOMAIN fc.lexicon
    /\ Cardinality(DOMAIN call.outcome.probs) = 2
    /\ \E tag \in DOMAIN call.outcome.probs :
          FGt(FOne, ProbOf(call.outcome.probs[tag]))

SubstLexiconNames == {"SubstLexicon", "SubstLexiconWithLookup"}

\* the fallback of the handler of a name
FallbackOf(name) ==
    IF name = "LexiconWithSuffixHandler" THEN wh.sh
    ELSE IF name \in {"LexiconWithLookup", "SubstLexiconWithLookup"} THEN wh.lookup
    ELSE NoHandler

\* The outcomes of a lookup that tries the sources in the order of C13.  With
\* substLower the substituted word is, like the word, also tried lower-cased
\* when it starts with an upper-case letter; with emptyFails reading the
\* first character of an empty word that is not in the table fails.
OrderedLookup(name, word, substLower, emptyFails) ==
    LET tbl == calculateWordTagProbs(fc.lexicon, fc.unigrams)
        subst == name \in SubstLexiconNames
        StartsUpper(w) == Len(w) > 0 /\ IsUpper(w[1])
        LowerHit(w) == StartsUpper(w) /\ ToLower(w) \in DOMAIN tbl
        sw == ApplySubstitutions(Substitutions, word)
        seen2 == IF StartsUpper(word) THEN <<"exact", "lower">> ELSE <<"exact">>
        seen3 == IF ~subst THEN seen2
                 ELSE IF substLower /\ StartsUpper(sw)
                 THEN seen2 \o <<"subst-exact", "subst-lower">>
                 ELSE seen2 \o <<"subst-exact">>
    IN  IF word \in DOMAIN tbl
        THEN {TagProbsReturned(tbl[word], <<"exact">>)}
        ELSE IF emptyFails /\ Len(word) = 0
        THEN {TagProbsPanicked(<<"exact">>)}
        ELSE IF LowerHit(word)
        THEN {TagProbsReturned(tbl[ToLower(word)], seen2)}
        ELSE IF subst /\ sw \in DOMAIN tbl
        THEN {TagProbsReturned(tbl[sw], seen2 \o <<"subst-exact">>)}
        ELSE IF subst /\ emptyFails /\ Len(sw) = 0
        THEN {TagProbsPanicked(seen2 \o <<"subst-exact">>)}
        ELSE IF subst /\ substLower /\ LowerHit(sw)
        THEN {TagProbsReturned(tbl[ToLower(sw)], seen3)}
        ELSE IF FallbackOf(name) # NoHandler
        THEN {[o EXCEPT !.consulted = seen3 \o <<"fallback">>] :
                 o \in TagProbsOutcomes(FallbackOf(name), word)}
        ELSE {TagProbsReturned(EmptyMap, seen3)}

\* C13 (as stated): a lookup tries (1) the exact word, (2) only if it starts
\* with an upper-case letter the lower-cased word, (3) in a SubstLexicon the
\* word after the substitutions, looked up exactly, (4) the fallback, asked
\* about the word, (5) with no fallback nothing, and stops at the first
\* source that has tags.
C13_SourcesInOrder ==
    (call.asked /\ call.handler \in LexiconNames \cup SubstLexiconNames)
    => call.outcome \in OrderedLookup(call.handler, call.word, FALSE, FALSE)

\* C13 (amended): the same order, but the substituted word is looked up as
\* the word was, exactly and then lower-cased if it starts with an
\* upper-case letter, and the lookup of an empty word that is not in the
\* table fails where its first character is read.
C13_SourcesInOrderSubstLower ==
    (call.asked /\ call.handler \in LexiconNames \cup SubstLexiconNames)
    => call.outcome \in OrderedLookup(call.handler, call.word, TRUE, TRUE)

\* a SubstLexicon with a fallback found the lower-cased substituted word,
\* after it missed the word, the lower-cased word and the substituted word
C13_Witness ==
    /\ call.asked
    /\ call.handler = "SubstLexiconWithLookup"
    /\ call.word = WordCbn
    /\ ~call.outcome.panic
    /\ call.outcome.consulted = <<"exact", "lower", "subst-exact", "subst-lower">>
    /\ DOMAIN call.outcome.probs # {}

\* C14: TagProbs of every word handler (Lexicon, SubstLexicon, SuffixHandler,
\* LookupSuffixHandler) returns a map without panicking for every word, the
\* empty one and those absent from training included.
C14_TagProbsNeverPanics == call.asked => ~call.outcome.panic

NoFallbackNames == {"Lexicon", "SubstLexicon"}

\* the model holds a tag other than those of the sentence markers
HasWordTags ==
    \E tag \in DOMAIN fc.unigrams :
        Label(fc.numberer, tag.Tag) \notin {StartToken, EndToken}

OnTriePath(word) ==
    /\ Len(word) > 0
    /\ RevTrunc(word, wh.sh.trees[ClassOf(word)].maxLength)
          \in DOMAIN wh.sh.trees[ClassOf(word)].nodes

\* C16: for a SuffixHandler sh and the LookupSuffixHandler built from it,
\* LookupSuffixHandler.TagProbs(w) equals sh.TagProbs(w) for every word whose
\* reversed, truncated form is a path of the tree of its class.
C16_LookupEqualsTree ==
    (call.asked /\ call.handler = "LookupSuffixHandler" /\ OnTriePath(call.word))
    => \A m \in SuffixHandlerTagProbs(wh.sh, call.word) : m = call.outcome.probs

\* the map the LookupSuffixHandler returns is one that sh.TagProbs can
\* return, and the only one when no range over a map decides the result
C16_LookupIsATreeResult ==
    (call.asked /\ call.handler = "LookupSuffixHandler" /\ ~call.outcome.panic)
    => call.outcome.probs \in SuffixHandlerTagProbs(wh.sh, call.word)

\* two words of the same class with the same reversed, truncated form
SameClassAndSuffix(w1, w2) ==
    /\ Len(w1) > 0 /\ Len(w2) > 0
    /\ ClassOf(w1) = ClassOf(w2)
    /\ RevTrunc(w1, wh.config.MaxSuffixLen) = RevTrunc(w2, wh.config.MaxSuffixLen)

\* C17: for two words of the same class that have the same last MaxSuffixLen
\* characters (or are both shorter and equal), SuffixHandler.TagProbs returns
\* the same map.
C17_SameSuffixSameProbs ==
    (call.asked /\ call.handler = "SuffixHandler" /\ ~call.outcome.panic)
    => \A w2 \in QueryWords :
          SameClassAndSuffix(call.word, w2)
          => \A m \in SuffixHandlerTagProbs(wh.sh, w2) : m = call.outcome.probs

\* the maps SuffixHandler.TagProbs can return are the same for two such
\* words; which of them a call returns is decided by its ranges over maps
C17_SameSuffixSameChoices ==
    (call.asked /\ call.handler = "SuffixHandler" /\ ~call.outcome.panic)
    => \A w2 \in QueryWords :
          SameClassAndSuffix(call.word, w2)
          => call.outcome.probs \in SuffixHandlerTagProbs(wh.sh, w2)

(***************************************************************************)
(* Claims about concurrent sessions, checked under SpecConcurrent.         *)
(***************************************************************************)
RECURSIVE AloneHeaps(_, _, _, _)
\* the trellises viterbi can build from position k on when no other call
\* runs, or a panic
AloneHeaps(toks, k, h, bm) ==
    IF k > Len(toks)
    THEN {[panic |-> FALSE, heap |-> h]}
    ELSE UNION {IF o.panic
                THEN {[panic |-> TRUE, heap |-> h]}
                ELSE AloneHeaps(toks, k + 1, Append(h, o.column), o.beam) :
                   o \in ViterbiOutcomes(lexicon, lim, beamFactor, toks[k], h[Len(h)], bm)}

\* how a call Tag(snt).Tags() can end when it runs alone on a tagger whose
\* numberer is nb
AloneOutcomes(snt, nb) ==
    LET toks == <<StartToken, StartToken>> \o snt \o <<EndToken>>
        after == AfterNumber(nb, StartToken)
        heaps == AloneHeaps(toks, 3, InitialHeap(MkTag(NumberOf(nb, StartToken), FALSE)), 0)
    IN  UNION {IF h.panic
               THEN {[pc |-> "panic", result |-> NoResult]}
               ELSE {[pc |-> IF t.panic THEN "panic" ELSE "done", result |-> t.result] :
                        t \in TagsOutcomes(after, h.heap)} :
                  h \in heaps}

\* every call that has ended did so as it can when run alone
EndsAsAlone ==
    \A s \in Sessions :
        sess[s].pc \in {"done", "panic"}
        => [pc |-> sess[s].pc, result |-> sess[s].result]
              \in AloneOutcomes(sess[s].sentence, sess[s].start)

\* no step of a session changes the numberer, the word handler or the
\* trigram model
SharedUnchanged == numberer' = numberer /\ lexicon' = lexicon /\ lim' = lim

\* C18: Tag/Tags calls that run concurrently on one HMMTagger leave the
\* model's tag numberer, the transition model and the emission model
\* unchanged, and each call returns what it would return if run alone.
C18_SessionsOnlyRead == [][SharedUnchanged]_vars /\ []EndsAsAlone

C18_SharedUnchangedOnly == [][SharedUnchanged]_vars

\* on a tagger whose numberer holds "<START>" the sessions only read
C18_TrainedSessionsOnlyRead ==
    [][(numberer = TrainedNumberer) => SharedUnchanged]_vars

\* on a tagger whose numberer holds "<START>" every call ends as it can when
\* run alone
C18_TrainedEndsAsAlone == (numberer = TrainedNumberer) => EndsAsAlone

(***************************************************************************)
(* Claims about calculateLambdas, checked under SpecTrigram.               *)
(***************************************************************************)
\* a >= b of two estimates; false when either is NaN
FGeq(a, b) == ~IsNaN(a) /\ ~IsNaN(b) /\ ~FGt(b, a)

\* the three leave-one-out estimates of a trigram of the collector
EstimatesOf(t) ==
    [p1 |-> l1p(corpusSize(fc.unigrams), fc.unigrams, t),
     p2 |-> l2p(fc.unigrams, fc.bigrams, t),
     p3 |-> l3p(fc.bigrams, fc.trigrams, t)]

\* ties go to the lower order: the unigram estimate wins when it is at least
\* as large as both others, the bigram estimate only when it beats both
TiesToLowerOrder(e) ==
    IF FGeq(e.p1, e.p2) /\ FGeq(e.p1, e.p3) THEN 1
    ELSE IF FGt(e.p2, e.p1) /\ FGt(e.p2, e.p3) THEN 2
    ELSE 3

\* ties go to the trigram: the unigram and the bigram estimate win only when
\* they beat both others
TiesToTrigram(e) ==
    IF FGt(e.p1, e.p2) /\ FGt(e.p1, e.p3) THEN 1
    ELSE IF FGt(e.p2, e.p1) /\ FGt(e.p2, e.p3) THEN 2
    ELSE 3

\* the weights that result when every trigram's count is credited to the
\* accumulator Rule names
LambdasBy(Rule(_)) ==
    LET lf(a) == SumOf(fc.trigrams, {t \in DOMAIN fc.trigrams : Rule(EstimatesOf(t)) = a})
        total == lf(1) + lf(2) + lf(3)
    IN  [L1 |-> FDiv(lf(1), total), L2 |-> FDiv(lf(2), total), L3 |-> FDiv(lf(3), total)]

\* C19 (as stated): calculateLambdas credits a trigram's count to the
\* accumulator of the largest of its three estimates, ties resolved toward
\* the lower order: to lambda1 whenever the unigram estimate is at least as
\* large as both others, to lambda2 only if the bigram estimate beats both,
\* otherwise to lambda3.
C19_TiesToLowerOrder ==
    tm.built => tm.smoothingParameters = LambdasBy(TiesToLowerOrder)

\* C19 (amended): ties are resolved toward the trigram: the count goes to
\* lambda1 only if the unigram estimate is strictly greater than both others,
\* to lambda2 only if the bigram estimate is strictly greater than both
\* others, and otherwise to lambda3.
C19_TiesToTrigram ==
    tm.built => tm.smoothingParameters = LambdasBy(TiesToTrigram)

\* a model was built from a corpus with a trigram whose three estimates are
\* defined and whose unigram estimate ties with the largest of the two
\* others, and the weights differ from those of the rule that lets the
\* unigram win ties
C19_Witness ==
    /\ tm.built
    /\ \E t \in DOMAIN fc.trigrams :
          LET e == EstimatesOf(t)
          IN  /\ ~IsNaN(e.p1) /\ ~IsNaN(e.p2) /\ ~IsNaN(e.p3)
              /\ FGeq(e.p1, e.p2) /\ FGeq(e.p1, e.p3)
              /\ e.p1 = e.p2 \/ e.p1 = e.p3
    /\ tm.smoothingParameters # LambdasBy(TiesToLowerOrder)

(***************************************************************************)
(* Claims about the beam, checked under Spec.                              *)
(***************************************************************************)
\* the highest score of the pairs (t1, t2) of a column
MaxPairScore(col) ==
    SetMax(UNION {{col[t2][t1].prob : t1 \in DOMAIN col[t2]} : t2 \in DOMAIN col}
           \cup {NegInf})

\* the t1 of the pairs (t1, t2) of the previous column that the rule of C20
\* does not skip at position pos: all of them at the first processed
\* position, and later those whose score is not strictly below the highest
\* score of that column minus log(beamFactor)
NotSkipped(col, t2, pos) ==
    IF pos = 2
    THEN DOMAIN col[t2]
    ELSE {t1 \in DOMAIN col[t2] : col[t2][t1].prob >= Sub(MaxPairScore(col), beamFactor)}

\* the column a step of viterbi built is the one that results from the pairs
\* that the rule does not skip
BuiltFromNotSkipped ==
    LET col == heap[Len(heap)]
        built == heap'[Len(heap')]
        tagProbs == LexiconTagProbs(lexicon, tokens[i + 1])
    IN  /\ DOMAIN built = DOMAIN tagProbs
        /\ \A t3 \in DOMAIN built :
              /\ DOMAIN built[t3] = DOMAIN col
              /\ \A t2 \in DOMAIN col :
                    /\ built[t3][t2].prob =
                          SetMax({CandProb(lim, col, tagProbs[t3], t1, t2, t3) :
                                     t1 \in NotSkipped(col, t2, i)} \cup {NegInf})
                    /\ built[t3][t2].state \in NotSkipped(col, t2, i) \cup {NilState}
        /\ pruned' = (pruned \/ \E t2 \in DOMAIN col : NotSkipped(col, t2, i) # DOMAIN col[t2])

\* C20: at each position after the first processed one, a pair (t1, t2) of
\* the previous column is skipped if and only if its score is strictly below
\* the highest score of the pairs of that column minus log(beamFactor), the
\* threshold being taken from that column only; at the first processed
\* position the initial pair of score 0 is not skipped.
C20_BeamFromPreviousColumn ==
    [][(pc = "viterbi" /\ pc' \in {"viterbi", "tagged"}) => BuiltFromNotSkipped]_vars

\* a decoding ended in which a pair was skipped, and in which the highest
\* score of the last column is below that of an earlier one
C20_Witness ==
    /\ pc = "done"
    /\ pruned
    /\ Len(heap) >= 4
    /\ MaxPairScore(heap[Len(heap)]) < MaxPairScore(heap[3])

(***************************************************************************)
(* Claims about the states viterbi stores, checked under Spec.             *)
(***************************************************************************)
\* what a step of viterbi stored for the pairs (t2, t3) of the column it
\* built, against the sums over the t1 that were not skipped; withBP(ns, best)
\* says when the pair has to hold a backpointer
StoredForPairs(withBP(_, _)) ==
    LET col == heap[Len(heap)]
        built == heap'[Len(heap')]
        tagProbs == LexiconTagProbs(lexicon, tokens[i + 1])
    IN  \A t3 \in DOMAIN built : \A t2 \in DOMAIN built[t3] :
          LET ns == NotSkipped(col, t2, i)
              sum(t1) == CandProb(lim, col, tagProbs[t3], t1, t2, t3)
              best == SetMax({sum(t1) : t1 \in ns} \cup {NegInf})
              bp == built[t3][t2]
          IN  /\ bp.prob = best
              /\ IF withBP(ns, best)
                 THEN bp.state \in ns /\ sum(bp.state) = best
                 ELSE bp.state = NilState /\ bp.prob = NegInf

\* no backpointer only when every t1 was skipped
UnlessAllSkipped(ns, best) == ns # {}

\* no backpointer when no t1 that was not skipped has a sum above -Inf
IfSumAboveNegInf(ns, best) == best > NegInf

\* the pairs of consecutive tags of the returned sequence have a score
\* above -Inf in the column of their position
ReturnedPairsFinite ==
    pc = "done" =>
        \A p \in 3 .. Len(result.tagNumbers) :
            \A t3 \in DOMAIN heap[p] : \A t2 \in DOMAIN heap[p][t3] :
                (t3.Tag = result.tagNumbers[p] /\ t2.Tag = result.tagNumbers[p - 1])
                    => heap[p][t3][t2].prob > NegInf

\* C21 (as stated): every pair (t2, t3) of a new column stores the highest
\* sum transition + emission + score(t1, t2) over the t1 that were not
\* skipped and a backpointer to a t1 that has it; it stores -Inf and no
\* backpointer when every t1 of that t2 was skipped; and no pair of a
\* returned sequence has the score -Inf.
C21_BackpointerUnlessAllSkipped ==
    /\ [][(pc = "viterbi" /\ pc' \in {"viterbi", "tagged"})
             => StoredForPairs(UnlessAllSkipped)]_vars
    /\ []ReturnedPairsFinite

\* C21 (amended): the pair stores the highest sum and a backpointer to a t1
\* that has it when that sum is above -Inf, and -Inf and no backpointer
\* otherwise, which is when every t1 was skipped or every sum is -Inf.
C21_BackpointerIfSumAboveNegInf ==
    /\ [][(pc = "viterbi" /\ pc' \in {"viterbi", "tagged"})
             => StoredForPairs(IfSumAboveNegInf)]_vars
    /\ []ReturnedPairsFinite

\* a sequence was returned from a trellis with a pair whose t1 were all
\* skipped and a pair of which one t1 was skipped and another was not
C21_Witness ==
    /\ pc = "done"
    /\ \E p \in 4 .. Len(heap) : \E t3 \in DOMAIN heap[p] : \E t2 \in DOMAIN heap[p][t3] :
          /\ NotSkipped(heap[p - 1], t2, p - 1) = {}
          /\ heap[p][t3][t2] = Backpointer(NilState, NegInf)
    /\ \E p \in 4 .. Len(heap) : \E t3 \in DOMAIN heap[p] : \E t2 \in DOMAIN heap[p][t3] :
          /\ NotSkipped(heap[p - 1], t2, p - 1) \notin {{}, DOMAIN heap[p - 1][t2]}
          /\ heap[p][t3][t2].prob > NegInf

(***************************************************************************)
(* Claims about the terminal state, checked under SpecBelowOne.            *)
(***************************************************************************)
NilTail == "nil tail while extracting highest probability sequence"

\* the threshold viterbi uses for the pairs of the column of heap[p]: the
\* zero value of beam for the initial column, and columnHighestProb -
\* beamFactor for a column it built
ThresholdOf(p) == IF p = 2 THEN 0 ELSE MaxPairScore(heap[p]) - beamFactor

\* some pair of the column of heap[p] has a score above -Inf that the
\* threshold does not exclude
HasPairInBeam(p) ==
    \E t2 \in DOMAIN heap[p] : \E t1 \in DOMAIN heap[p][t2] :
        /\ heap[p][t2][t1].prob > NegInf
        /\ heap[p][t2][t1].prob >= ThresholdOf(p)

\* C22: with beamFactor >= 1 (a stored logarithm >= 0) and all transition
\* and emission scores finite, every column has a pair with a finite score at
\* or above the threshold, the last column has a terminal state and Tags()
\* does not panic with "nil tail"; and whenever the last column has no pair
\* with a score above -Inf, Tags() panics with "nil tail" and returns nothing.
C22_TerminalStateExists ==
    /\ (beamFactor >= 0 /\ AllScoresFinite) =>
          /\ pc \in {"viterbi", "tagged", "done"} =>
                \A p \in 2 .. Len(heap) : HasPairInBeam(p)
          /\ pc \in {"tagged", "done"} => MaxPairScore(lastColumn) > NegInf
          /\ panicMsg # NilTail
    /\ pc = "done" => MaxPairScore(lastColumn) > NegInf
    /\ (pc = "panic" /\ panicMsg = NilTail) =>
          /\ MaxPairScore(lastColumn) = NegInf
          /\ ~result.returned
          /\ beamFactor < 0 \/ ~AllScoresFinite

\* a sequence was returned for two tokens, with finite scores and a beam
\* factor of 1 that skipped a pair
C22_Witness ==
    /\ pc = "done" /\ beamFactor = 0 /\ AllScoresFinite
    /\ Len(sentence) = 2 /\ pruned

\* Tags() panicked with "nil tail" although all scores are finite
NilTailBelowOne ==
    pc = "panic" /\ panicMsg = NilTail /\ AllScoresFinite /\ beamFactor < 0

\* Tags() panicked with "nil tail" although the beam factor is 1 or more
NilTailNotFinite ==
    pc = "panic" /\ panicMsg = NilTail /\ ~AllScoresFinite /\ beamFactor >= 0

(***************************************************************************)
(* Claims about the word classes, checked under SpecWords.                 *)
(***************************************************************************)
\* the class of a non-empty word by the priority upper-case initial >
\* cardinal pattern > hyphen > default
InClass(c, word) ==
    IF c = "upper" THEN IsUpper(word[1])
    ELSE IF c = "cardinal" THEN ~IsUpper(word[1]) /\ CardinalMatch(word)
    ELSE IF c = "dash" THEN ~IsUpper(word[1]) /\ ~CardinalMatch(word) /\ ContainsDash(word)
    ELSE ~IsUpper(word[1]) /\ ~CardinalMatch(word) /\ ~ContainsDash(word)

\* words of every class, and words with the marks of several classes
ClassifierWords ==
    (QueryWords \ {<< >>})
    \cup {<<"1","-","2">>, <<"A","-","1">>, <<"A","1">>, <<"a","1">>, <<"-">>,
          <<"a","-","1">>, <<"1",".">>, <<"a","B">>, <<"-","a">>}

\* the words NewSuffixHandler added to a tree
TrainedWords ==
    {w \in DOMAIN fc.lexicon :
        /\ w \notin {StartToken, EndToken} /\ Len(w) > 0
        /\ selectSuffixTreeWithCutoffs(wh.config, w, WordFreq(fc.lexicon[w])) # NilTree}

\* the three selections agree with the priority rule on a word
SelectionsAgree(w) ==
    LET class == ClassOf(w)
    IN  /\ Cardinality({c \in Classes : InClass(c, w)}) = 1
        /\ InClass(class, w)
        /\ selectMap(w) = class
        /\ \A f \in {0, 2, 3, 5, 9, 11} :
              LET t == selectSuffixTreeWithCutoffs(wh.config, w, f)
              IN  IF f > MaxFreqOf(wh.config, class) THEN t = NilTree ELSE t = class

\* C23: every non-empty word is in exactly one class by the priority upper-case
\* initial > cardinal pattern > hyphen > default; selectSuffixTree and
\* selectMap pick that class and selectSuffixTreeWithCutoffs picks that class
\* or none; and the suffix of every word added to a tree is a node of the tree,
\* and a key of the map, in which the word is looked up.  (The classes and
\* the trees depend on the configuration and the training tables only: they
\* are examined once the handlers are built, and after a TagProbs call the
\* classes in which its word was looked up.)
C23_SameClassEverywhere ==
    wh.built =>
        IF call.asked
        THEN Len(call.word) > 0 =>
                /\ InClass(ClassOf(call.word), call.word)
                /\ selectMap(call.word) = ClassOf(call.word)
        ELSE /\ \A w \in (ClassifierWords \cup DOMAIN fc.lexicon) \ {<< >>} :
                   SelectionsAgree(w)
             /\ \A w \in TrainedWords :
                   LET suffix == RevTrunc(w, wh.config.MaxSuffixLen)
                   IN  /\ suffix \in DOMAIN wh.sh.trees[ClassOf(w)].nodes
                       /\ suffix \in DOMAIN wh.lookup.probs[selectMap(w)]

\* a capitalised word was added to the upper-case tree and a lower-case word
\* to the default tree
C23_Witness ==
    /\ wh.built /\ ~call.asked
    /\ WordCapCan \in TrainedWords /\ WordDog \in TrainedWords
    /\ <<"n">> \in DOMAIN wh.sh.trees["upper"].nodes
    /\ <<"n">> \notin DOMAIN wh.sh.trees["lower"].nodes

(***************************************************************************)
(* Claims about the marker tags in the tries, checked under SpecMarked.    *)
(***************************************************************************)
\* the numbers of the two marker tags
MarkerNumbers == {NumberOf(fc.numberer, StartToken), NumberOf(fc.numberer, EndToken)}

\* no node of a tree of the SuffixHandler counts a marker tag
NoMarkerTagInTries ==
    \A class \in Classes : \A path \in DOMAIN wh.sh.trees[class].nodes :
        \A tag \in DOMAIN wh.sh.trees[class].nodes[path].tagFreqs :
            tag.Tag \notin MarkerNumbers

\* the last call was a TagProbs of one of the two suffix handlers that
\* returned a map
SuffixCallReturned ==
    /\ call.asked
    /\ call.handler \in {"SuffixHandler", "LookupSuffixHandler"}
    /\ ~call.outcome.panic

\* no marker tag is a candidate of the map returned
NoMarkerCandidate ==
    \A tag \in DOMAIN call.outcome.probs : tag.Tag \notin MarkerNumbers

\* only the words "<START>" and "<END>" carry a marker tag in the lexicon of
\* the model
OnlyMarkersCarryMarkerTags ==
    \A w \in DOMAIN fc.lexicon \ {StartToken, EndToken} :
        \A tag \in DOMAIN fc.lexicon[w] : tag.Tag \notin MarkerNumbers

\* C24: after NewSuffixHandler no node of the four tries counts the tag of
\* the start or end marker, and SuffixHandler.TagProbs and
\* LookupSuffixHandler.TagProbs never return such a tag, whatever the
\* training tables.
C24_NoMarkerTagInTries ==
    wh.built =>
        /\ NoMarkerTagInTries
        /\ SuffixCallReturned => NoMarkerCandidate

\* the same for the models in which only the marker words carry marker tags
C24_NoMarkerTagUnlessTrained ==
    (wh.built /\ OnlyMarkersCarryMarkerTags) =>
        /\ NoMarkerTagInTries
        /\ SuffixCallReturned => NoMarkerCandidate

\* a model of that kind with a trained word, asked about an unknown word
C24_UnlessTrainedReached ==
    /\ wh.built /\ OnlyMarkersCarryMarkerTags /\ SuffixCallReturned
    /\ WordDog \in DOMAIN fc.lexicon
    /\ call.word = WordZog /\ DOMAIN call.outcome.probs # {}

(***************************************************************************)
(* Claims about bestNLogSpace, checked under SpecWords.                    *)
(***************************************************************************)
\* the last call was SuffixHandler.TagProbs and returned a map
SuffixHandlerReturned ==
    call.asked /\ call.handler = "SuffixHandler" /\ ~call.outcome.panic

\* the argument tp of the bestNLogSpace call of that TagProbs call
BestNArgument == suffixTagProbs(wh.sh.trees[ClassOf(call.word)], call.word)

\* C25: bestNLogSpace(tp, n) returns min(n, |tp|) of the tags of tp, each with
\* the logarithm of its score, and the score of every tag it returns is
\* greater than or equal to the score of every tag it leaves out, in whatever
\* order the map is iterated.
C25_BestNAreHighest ==
    SuffixHandlerReturned =>
        LET tp == BestNArgument
            n == wh.sh.maxTags
            kept == DOMAIN call.outcome.probs
            size == Cardinality(DOMAIN tp)
        IN  /\ kept \subseteq DOMAIN tp
            /\ Cardinality(kept) = IF n < size THEN n ELSE size
            /\ \A k \in kept :
                  /\ call.outcome.probs[k] = Log(tp[k])
                  /\ \A d \in (DOMAIN tp) \ kept : FGeq(tp[k], tp[d])

\* one of two tags with different scores was returned and the other left out
C25_Witness ==
    /\ SuffixHandlerReturned
    /\ wh.sh.maxTags = 1
    /\ LET tp == BestNArgument
       IN  /\ Cardinality(DOMAIN call.outcome.probs) = 1
           /\ \E k \in DOMAIN call.outcome.probs : \E d \in DOMAIN tp : FGt(tp[k], tp[d])

(***************************************************************************)
(* Claims about the Bayesian inversion, checked under SpecWords.           *)
(***************************************************************************)
RECURSIVE Accumulated(_, _, _, _)
\* the back-off probabilities accumulated from the root down to the deepest
\* node of the reversed suffix, from the node of its first k runes on, before
\* the inversion
Accumulated(tree, revSuffix, k, tp) ==
    LET tp2 == NodeTagProbs(tree.theta, tree.nodes[SubSeq(revSuffix, 1, k)], tp)
    IN  IF k < Len(revSuffix) /\ SubSeq(revSuffix, 1, k + 1) \in DOMAIN tree.nodes
        THEN Accumulated(tree, revSuffix, k + 1, tp2)
        ELSE tp2

\* count(tag)
UnigramCount(tag) == FDiv(Freq(fc.unigrams, tag), 1)

\* count(tag) / corpus size
UnigramProbability(tag) == FDiv(Freq(fc.unigrams, tag), corpusSize(fc.unigrams))

\* every candidate of the map a suffix handler returned has the logarithm of
\* its accumulated probability divided by Divisor(tag)
InvertedBy(Divisor(_)) ==
    (SuffixCallReturned /\ Len(call.word) > 0) =>
        LET tree == wh.sh.trees[ClassOf(call.word)]
            acc == Accumulated(tree, RevTrunc(call.word, tree.maxLength), 0,
                               [tag \in DOMAIN tree.nodes[<< >>].tagFreqs |-> FZero])
        IN  \A tag \in DOMAIN call.outcome.probs :
                call.outcome.probs[tag] = Log(FQuot(acc[tag], Divisor(tag)))

\* C26 (as stated): the tree walk and the cache divide each tag's accumulated
\* back-off probability by the tag's unigram probability, count(tag) divided
\* by the corpus size.
C26_DividesByUnigramProbability == InvertedBy(UnigramProbability)

\* C26 (amended): they divide it by the tag's unigram count, count(tag).
C26_DividesByUnigramCount == InvertedBy(UnigramCount)

\* the cache answered for an unknown word from a node below the root, for a
\* model of more than one tag occurrence
C26_Witness ==
    /\ SuffixCallReturned
    /\ call.handler = "LookupSuffixHandler" /\ call.word = WordZog
    /\ <<"g", "o">> \in DOMAIN wh.sh.trees["lower"].nodes
    /\ Cardinality(DOMAIN call.outcome.probs) = 2
    /\ corpusSize(fc.unigrams) > 4

(***************************************************************************)
(* Claims about the corpus size, checked under SpecTrigram.                *)
(***************************************************************************)
\* the sum over the sentences processed of their length + 3
SentenceLengthsPlusMarkers == nTokens + 3 * nProcessed

RECURSIVE UnigramTotal(_)
\* the sum of the counts of a set of tag unigrams of the collector
UnigramTotal(tags) ==
    IF tags = {}
    THEN 0
    ELSE LET t == CHOOSE x \in tags : TRUE
         IN  fc.unigrams[t] + UnigramTotal(tags \ {t})

\* C27: after Process succeeded on sentences of the lengths n1..nk, the sum
\* of all tag-unigram counts is the sum of the (nj + 3), two start markers
\* and one end marker being counted per sentence, and it is the corpus size
\* of the transition model: every unigram probability the model stores is
\* log(lambda1 * count / that sum).
C27_UnigramSumIsCorpusSize ==
    /\ UnigramTotal(DOMAIN fc.unigrams) = SentenceLengthsPlusMarkers
    /\ nProcessed > 0 =>
          /\ fc.unigrams[MkTag(NumberOf(fc.numberer, StartToken), FALSE)] = 2 * nProcessed
          /\ fc.unigrams[MkTag(NumberOf(fc.numberer, EndToken), FALSE)] = nProcessed
    /\ tm.built =>
          \A u \in DOMAIN fc.unigrams :
              tm.unigramProbs[u] =
                  Log(FMul(tm.smoothingParameters.L1,
                           FDiv(fc.unigrams[u], SentenceLengthsPlusMarkers)))

\* a model was built from two sentences of different lengths, with a
\* unigram weight above 0
C27_Witness ==
    /\ tm.built /\ nProcessed = 2 /\ nTokens = 3
    /\ FGt(tm.smoothingParameters.L1, FZero)

(***************************************************************************)
(* Claims about the StringNumberer, checked under SpecNumberer.            *)
(***************************************************************************)
\* Size()
Size(nb) == Len(nb.labels)

\* the labels and the numbers of the numberer are a bijection onto
\* 0 .. Size() - 1
IsBijection(nb) ==
    /\ \A s \in DOMAIN nb.labelNumbers :
          /\ LabelInRange(nb, nb.labelNumbers[s])
          /\ Label(nb, nb.labelNumbers[s]) = s
    /\ \A n \in 0 .. Size(nb) - 1 :
          /\ Label(nb, n) \in DOMAIN nb.labelNumbers
          /\ nb.labelNumbers[Label(nb, n)] = n
    /\ {nb.labelNumbers[s] : s \in DOMAIN nb.labelNumbers} = 0 .. Size(nb) - 1

\* what the last call, if it was a Number call, returned and changed
NumberCallAgrees ==
    (call.asked /\ call.op = "Number") =>
        /\ LabelInRange(numberer, call.result)
        /\ Label(numberer, call.result) = call.label
        /\ call.label \in DOMAIN call.before.labelNumbers =>
              /\ numberer = call.before
              /\ call.result = call.before.labelNumbers[call.label]

\* C28: after any sequence of Number and Read calls the numberer is a
\* bijection: Label(Number(s)) = s, Number(Label(n)) = n for n < Size(), the
\* numbers in use are 0 .. Size() - 1, and Number of a known label changes
\* nothing and returns the number the label has.
C28_NumbererIsBijection == IsBijection(numberer) /\ NumberCallAgrees

\* the same while no label is held twice, as after Number calls and Reads of
\* files without a repeated label
C28_BijectionWithoutRepeatedLabel ==
    (Cardinality({numberer.labels[k] : k \in DOMAIN numberer.labels}) = Size(numberer))
        => (IsBijection(numberer) /\ NumberCallAgrees)

\* a known label was numbered again after a Read of two different labels
C28_WithoutRepeatedLabelReached ==
    /\ call.asked /\ call.op = "Number"
    /\ Size(numberer) = 3
    /\ call.label \in DOMAIN call.before.labelNumbers
    /\ call.result = 1

(***************************************************************************)
(* Claims about the score Tags() returns, checked under Spec.              *)
(***************************************************************************)
RECURSIVE RecomputedScore(_, _)
\* the sum of transition(t[k-2], t[k-1], t[k]) + emission_k(t[k]) over the
\* places 3 .. k of the padded sentence, for the tag numbers t
RecomputedScore(t, k) ==
    IF k <= 2
    THEN 0
    ELSE LET tag(j) == MkTag(t[j], FALSE)
         IN  Add(RecomputedScore(t, k - 1),
                 Add(TrigramProb(lim, <<tag(k - 2), tag(k - 1), tag(k)>>).p,
                     CandidatesAt(k)[tag(k)]))

\* C29: whenever Tags() returns, the score returned is the highest score
\* stored in the last column, and it is the sum of the transition and
\* emission scores along the tags traced back, over every processed
\* position, the end marker's included.
C29_ScoreIsPathScore ==
    pc = "done" =>
        /\ result.prob = MaxPairScore(lastColumn)
        /\ Len(result.tagNumbers) = Len(PaddedSentence)
        /\ result.prob = RecomputedScore(result.tagNumbers, Len(result.tagNumbers))

\* a sequence was returned for two tokens of two candidates each, after a
\* pair was skipped
C29_Witness ==
    /\ pc = "done" /\ Len(sentence) = 2 /\ pruned
    /\ Cardinality(DOMAIN CandidatesAt(3)) = 2 /\ Cardinality(DOMAIN CandidatesAt(4)) = 2
    /\ result.prob < 0 - 4

(***************************************************************************)
(* Claims about the counts of the tries, checked under SpecWords.          *)
(***************************************************************************)
RECURSIVE TagFreqsTotal(_, _)
\* the sum of the values of the tagFreqs of a node over a set of its tags
TagFreqsTotal(tagFreqs, tags) ==
    IF tags = {}
    THEN 0
    ELSE LET t == CHOOSE x \in tags : TRUE
         IN  tagFreqs[t] + TagFreqsTotal(tagFreqs, tags \ {t})

\* C30: after NewSuffixHandler and its addWord calls, the tagFreq of every
\* node of every trie is the sum of its tagFreqs, every node but the root has
\* its parent in the trie, and for every tag the count of a node is not
\* greater than the count of its parent.
C30_NodeCountsConsistent ==
    wh.built =>
        \A class \in Classes :
            LET nodes == wh.sh.trees[class].nodes
            IN  \A path \in DOMAIN nodes :
                    /\ nodes[path].tagFreq =
                          TagFreqsTotal(nodes[path].tagFreqs, DOMAIN nodes[path].tagFreqs)
                    /\ path # << >> =>
                          LET parent == SubSeq(path, 1, Len(path) - 1)
                          IN  /\ parent \in DOMAIN nodes
                              /\ \A tag \in DOMAIN nodes[path].tagFreqs :
                                    /\ tag \in DOMAIN nodes[parent].tagFreqs
                                    /\ nodes[path].tagFreqs[tag] <= nodes[parent].tagFreqs[tag]

\* the lower-case trie holds words of two suffixes, a node two runes deep
\* with two tags, and a child with a smaller count than its parent
C30_Witness ==
    /\ wh.built
    /\ LET nodes == wh.sh.trees["lower"].nodes
       IN  /\ <<"g", "o">> \in DOMAIN nodes /\ <<"n", "a">> \in DOMAIN nodes
           /\ Cardinality(DOMAIN nodes[<<"g", "o">>].tagFreqs) = 2
           /\ \E tag \in DOMAIN nodes[<<"g">>].tagFreqs :
                 nodes[<<"g">>].tagFreqs[tag] < nodes[<< >>].tagFreqs[tag]

==========================================================================
